---- MODULE Spec2Model ----
(***************************************************************************)
(* A model of the CI task-graph construction engine of                     *)
(* mozilla/application-services:                                           *)
(*                                                                         *)
(*  - automation/taskcluster/decisionlib.py: Shared, Task.create and       *)
(*    Task.find_or_create (the content-addressable cache), driven by       *)
(*    decision runs that talk to one remote queue and one remote index;    *)
(*  - taskcluster/app_services_taskgraph/transforms/deps_complete.py:      *)
(*    adjust_dependencies (the dependency chunker);                        *)
(*  - transforms/__init__.py and loader/__init__.py: component_grouping    *)
(*    and group_tasks (the dependency grouping);                           *)
(*  - target_tasks.py: the target task strategies;                         *)
(*  - app_services_taskgraph/__init__.py and branch_builds.py:             *)
(*    get_decision_parameters and update_decision_parameters;              *)
(*  - transforms/beetmover.py: the six beetmover transforms, chained;      *)
(*  - taskcluster/scripts/deps-complete.py: the verdict on the tasks a     *)
(*    task depends on.                                                     *)
(*                                                                         *)
(* Each part has its own specification: Spec (decision runs), SpecChunk    *)
(* (the chunker on one job), SpecJobs (the chunker fed several jobs),      *)
(* SpecChunkFair (the chunker on one job, run to its end), SpecGroup (the  *)
(* grouping), SpecTarget (the strategies), SpecParams (the decision        *)
(* parameters), SpecBeetmover (the beetmover transforms) and SpecScript    *)
(* (chunking, then the script on the tasks it made); each keeps the        *)
(* variables of the other parts fixed.                                     *)
(***************************************************************************)
EXTENDS Integers, Sequences, FiniteSets, TLC

VARIABLES
    \* ---- decisionlib.py -------------------------------------------------
    now,          \* SHARED.now of each decision run
    found_or_created_indexed_tasks,  \* SHARED.found_or_created_indexed_tasks of each run
    all_tasks,    \* SHARED.all_tasks of each run
    queue,        \* the remote queue: task id -> task definition (createTask)
    index,        \* the remote index: index path -> task id (findTask)
    pc,           \* each run: "running", "failed" (an exception left main) or "done"
    calls,        \* per run: its create / find_or_create calls so far, in order, each
                  \* with the path it used, the status findTask answered, the id it
                  \* returned and self.routes of the task object afterwards
    graph,        \* result of build_full_task_graph of each finished run
    decision,     \* the decision script of each run: "pull_request" is main of
                  \* decision_task_pull_request.py, "any" another script that
                  \* uses decisionlib
    creating,     \* per run: the find_or_create call that findTask answered 404
                  \* and that has still to call create(), if there is one
    hashed,       \* the (worker type, payload, path) triples of default index paths
    \* ---- deps_complete.py -----------------------------------------------
    MAX_DEPENDENCIES,  \* taskgraph.MAX_DEPENDENCIES
    jobs,         \* the jobs adjust_dependencies has still to take from its argument
    input,        \* the job as it was handed to adjust_dependencies
    job,          \* the job adjust_dependencies is working on
    deps,         \* local variable deps
    counter,      \* next value of itertools.count(1)
    yielded,      \* the jobs yielded so far, in order
    previous,     \* the run of adjust_dependencies before this one, if any: the order
                  \* its soft-dependencies were listed in and the jobs it yielded
    cpc,          \* position in adjust_dependencies: "start", "loop", "yielded", "done", "KeyError" ("idle"
                  \* when no job is being chunked)
    \* ---- transforms/__init__.py, loader/__init__.py ----------------------
    kind_dependencies,  \* config["kind-dependencies"]
    tasks,        \* the tasks handed to component_grouping
    groups,       \* the groups returned, in order
    grouped,      \* local variable groups of group_tasks: the values of the dict
    gpc,          \* "start", then how the groups were made: "from-deps" (the
                  \* transform), "group_tasks" (the loader, "yielded" while it
                  \* is suspended at its yield) or "KeyError"
    \* ---- target_tasks.py --------------------------------------------------
    full_task_graph,  \* full_task_graph.tasks
    tasks_for,    \* parameters["tasks_for"]
    head_rev,     \* parameters["head_rev"]
    nightly_index,  \* the revisions whose nightly decision task is in the index
    method,       \* the strategy that ran ("none" before)
    lookup,       \* what find_task_id answered to the nightly strategy (0: not asked)
    filtered_for_candidates,  \* the promote selection the ship strategy computed
    target_tasks, \* the labels the strategy returned
    earlier,      \* when the strategy has run a second time on the same graph and
                  \* parameters: what its first run returned and was answered
    \* ---- app_services_taskgraph/__init__.py -------------------------------
    parameters,   \* the parameters get_decision_parameters updates
    pr_title,     \* APPSERVICES_PULL_REQUEST_TITLE
    version,      \* get_version_from_version_txt()
    dpc,          \* "start", then "done" or the error raised
    \* ---- transforms/beetmover.py -----------------------------------------
    beetmover_input,  \* the tasks as they were handed to the sequence
    beetmover,    \* the tasks in the sequence, in order: each with the number of
                  \* transforms it has gone through and the input task it comes from
    level,        \* config.params["level"]
    flavors,      \* config.graph_config["release-promotion"]["flavors"]
    action_reads, \* the values of worker.action the transforms got, and who got them
    bpc,          \* "run", or the error a transform raised
    \* ---- scripts/deps-complete.py -----------------------------------------
    task_group    \* the decision task's group: task -> state, for the tasks resolved

libvars == <<now, found_or_created_indexed_tasks, all_tasks, queue, index, pc, calls,
             graph, decision, creating, hashed>>
chunkvars == <<MAX_DEPENDENCIES, jobs, input, job, deps, counter, yielded, previous, cpc>>
groupvars == <<kind_dependencies, tasks, groups, grouped, gpc>>
targetvars == <<full_task_graph, tasks_for, head_rev, nightly_index, method, lookup,
                filtered_for_candidates, target_tasks, earlier>>
paramvars == <<parameters, pr_title, version, dpc>>
beetvars == <<beetmover_input, beetmover, level, flavors, action_reads, bpc>>
scriptvars == <<task_group>>
vars == <<now, found_or_created_indexed_tasks, all_tasks, queue, index, pc, calls,
          graph, decision, creating, hashed, MAX_DEPENDENCIES, jobs, input, job, deps, counter, yielded,
          previous, cpc, kind_dependencies, tasks, groups, grouped, gpc, full_task_graph, tasks_for,
          head_rev, nightly_index, method, lookup, filtered_for_candidates, target_tasks,
          earlier, parameters, pr_title, version, dpc, beetmover_input, beetmover, level,
          flavors, action_reads, bpc, task_group>>

(***************************************************************************)
(* Bounds of the model.                                                    *)
(***************************************************************************)
\* number of create / find_or_create calls one decision run makes
MaxCalls == 2
\* number of distinct labels the soft-dependencies of a job are drawn from
NumLabels == 4
\* largest number of soft-dependencies of a job
MaxDeps == 5
\* largest value of taskgraph.MAX_DEPENDENCIES
MaxMaxDependencies == 3
\* largest number of tasks handed to component_grouping
MaxTasks == 4
\* largest number of tasks of a full task graph
MaxGraph == 2
\* largest number of tags and words of a pull request title
MaxTitle == 2
\* largest number of soft-dependencies of a job fed with another job
MaxFedDeps == 3
\* largest number of tasks handed to the beetmover transforms
MaxBeetmover == 2
\* entries of parameters["filters"]
MaxFilters == 3

Runs == {1, 2}
\* SHARED.now: the second run starts when the first does, or later
Times == {0, 1}

(***************************************************************************)
(* decisionlib.py                                                          *)
(***************************************************************************)

\* CONFIG.index_prefix
index_prefix == "project.application-services.application-services"

\* CONFIG.decision_task_id: the id of the decision task that is run r
decision_task_id(r) == r

\* taskcluster.slugId(): a fresh id, unique across runs and calls and
\* different from the decision task ids
slugId(r) == Cardinality(Runs) * (Len(calls[r]) + 1) + r

\* Python's None, where an id is expected
NoId == 0

\* SHARED.from_now_json(offset): the date `offset` after SHARED.now of run r
from_now_json(r, offset) == [base |-> now[r], offset |-> offset]

\* Task.__init__ plus the with_* calls of a decision script: the task objects
\* a run builds.  LibsTask is what android_libs builds, DesktopLibsTask what
\* desktop_linux_libs builds, Arm32Task what android_arm32 builds before it
\* is given its build task, PlainTask a task without artifacts.
LibsTask ==
    [worker_type |-> "application-services-r",
     scripts |-> <<"tar -czf /build/repo/target.tar.gz libs/android">>,
     env |-> <<>>,
     artifacts |-> <<"/build/repo/target.tar.gz">>,
     dependencies |-> <<>>,
     routes |-> <<>>,
     index_and_artifacts_expire_in |-> "1 month"]
DesktopLibsTask ==
    [LibsTask EXCEPT !.scripts = <<"tar -czf /build/repo/target.tar.gz libs/desktop">>]
Arm32Task ==
    [LibsTask EXCEPT
        !.scripts = <<"./gradlew --no-daemon clean assembleRelease">>,
        !.artifacts = <<"fxaclient-release.aar", "logins-release.aar">>]
PlainTask ==
    [worker_type |-> "github-worker",
     scripts |-> <<>>,
     env |-> <<>>,
     artifacts |-> <<>>,
     dependencies |-> <<>>,
     routes |-> <<>>,
     index_and_artifacts_expire_in |-> "1 year"]

\* Task.with_dependencies
with_dependencies(task, ids) == [task EXCEPT !.dependencies = @ \o ids]

\* Task.with_env(BUILD_TASK_ID=build_task)
with_env(task, build_task) == [task EXCEPT !.env = Append(@, build_task)]

\* android_arm32(build_task) up to its call of create()
android_arm32(build_task) ==
    with_dependencies(with_env(Arm32Task, build_task), <<build_task>>)

\* the dependencies a decision script hands to with_dependencies: an id one
\* of its earlier calls returned (android_arm32(android_libs_task), called
\* after desktop_linux_libs()), or none
DependencyLists(r) ==
    {<<>>} \cup {<<calls[r][i].result>> : i \in DOMAIN calls[r]}

\* DockerWorkerTask.build_worker_payload
build_worker_payload(r, task) ==
    [command |-> <<"/bin/bash", "--login", "-x", "-e", "-c">> \o task.scripts,
     env |-> task.env,
     features |-> IF Len(task.artifacts) > 0 THEN {"chainOfTrust"} ELSE {},
     artifacts |-> {[path |-> task.artifacts[i],
                     expires |-> from_now_json(r, task.index_and_artifacts_expire_in)]
                    : i \in DOMAIN task.artifacts}]

\* hashlib.sha256(...).hexdigest(): an ideal (collision-free) digest
sha256(x) == [sha256 |-> x]

\* json.dumps([worker_type, payload]).encode("utf-8")
json_dumps(worker_type, payload) == <<worker_type, payload>>

\* the index_path argument of find_or_create: None, or a path chosen by the caller
None == "None"
LibsPath == "build.libs.android.LIBS_SHA"
DesktopLibsPath == "build.libs.desktop.linux.LIBS_SHA"

\* the (task, index_path) pairs a decision script other than main of
\* decision_task_pull_request.py calls find_or_create with: the libs task
\* under its supplied path, and under the default path of lines 237-240
FindOrCreateArgs == {<<LibsTask, LibsPath>>, <<LibsTask, None>>}

\* main of decision_task_pull_request.py, in order: the calls it makes
Main == <<"android_libs", "desktop_linux_libs", "android_arm32">>

NoDigest == sha256(json_dumps("", [command |-> <<>>, env |-> <<>>, features |-> {}, artifacts |-> {}]))
NoPath == [prefix |-> "", path |-> "", digest |-> NoDigest]

\* IndexPath with the decision task id hashed along with the payload
IndexPath_per_run(r, task, index_path) ==
    LET payload == build_worker_payload(r, task)
        group == IF decision_task_id(r) = 1 THEN "decision-1" ELSE "decision-2"
    IN
    IF index_path = None
    THEN [prefix |-> index_prefix, path |-> "by-task-definition",
          digest |-> sha256(json_dumps(task.worker_type,
                       [payload EXCEPT !.command = Append(payload.command, group)]))]
    ELSE [prefix |-> index_prefix, path |-> index_path, digest |-> NoDigest]

\* find_or_create, lines 237-241: the full index path
IndexPath(r, task, index_path) ==
    IF index_path = None
    THEN [prefix |-> index_prefix, path |-> "by-task-definition",
          digest |-> sha256(json_dumps(task.worker_type, build_worker_payload(r, task)))]
    ELSE [prefix |-> index_prefix, path |-> index_path, digest |-> NoDigest]

\* IndexRoute with the route built from the path without CONFIG.index_prefix
IndexRoute_unprefixed(p) == [route |-> "index", to |-> [p EXCEPT !.prefix = ""]]

\* "index." + index_path
IndexRoute(p) == [route |-> "index", to |-> p]

\* queue_payload without the dependency on the decision task
queue_payload_no_decision(r, task) ==
    [taskGroupId |-> decision_task_id(r),
     dependencies |-> task.dependencies,
     workerType |-> task.worker_type,
     created |-> from_now_json(r, ""),
     payload |-> build_worker_payload(r, task),
     routes |-> task.routes,
     extra |-> IF \E i \in DOMAIN task.routes : task.routes[i].route = "index"
               THEN {from_now_json(r, task.index_and_artifacts_expire_in)}
               ELSE {}]

\* Task.create, lines 189-218: the definition handed to createTask
queue_payload(r, task) ==
    [taskGroupId |-> decision_task_id(r),
     dependencies |-> <<decision_task_id(r)>> \o task.dependencies,
     workerType |-> task.worker_type,
     created |-> from_now_json(r, ""),
     payload |-> build_worker_payload(r, task),
     routes |-> task.routes,
     extra |-> IF \E i \in DOMAIN task.routes : task.routes[i].route = "index"
               THEN {from_now_json(r, task.index_and_artifacts_expire_in)}
               ELSE {}]

\* schedule_task that does not keep the id of the task in all_tasks
schedule_task_unrecorded(r, taskId, taskDefinition) ==
    /\ queue' = (taskId :> taskDefinition) @@ queue
    /\ all_tasks' = all_tasks

\* Shared.schedule_task: createTask, then all_tasks.append
schedule_task(r, taskId, taskDefinition) ==
    /\ queue' = (taskId :> taskDefinition) @@ queue
    /\ all_tasks' = [all_tasks EXCEPT ![r] = Append(@, taskId)]

\* a decision script is running, is not inside find_or_create and has calls
\* left to make: main of decision_task_pull_request.py the calls of Main,
\* another script at most MaxCalls
CanCall(r) ==
    /\ pc[r] = "running"
    /\ creating[r] = <<>>
    /\ Len(calls[r]) < (IF decision[r] = "pull_request" THEN Len(Main) ELSE MaxCalls)

\* the record of one call in calls[r]
Call(op, p, status, result, routes) ==
    [op |-> op, path |-> p, status |-> status, result |-> result, routes |-> routes]

\* Task.create
create(r, task) ==
    /\ CanCall(r)
    /\ schedule_task(r, slugId(r), queue_payload(r, task))
    /\ calls' = [calls EXCEPT ![r] =
                   Append(@, Call("create", NoPath, 0, slugId(r), task.routes))]
    /\ UNCHANGED <<now, found_or_created_indexed_tasks, index, pc, graph, decision,
                   creating, hashed>>

\* the status of the response of index_service.findTask(p): 200 with a task id
\* when p is registered, 404 when it is not, or a failure at any time
FindTaskStatus(p) == (IF p \in DOMAIN index THEN {200} ELSE {404}) \cup {500}

\* cache_get that never finds anything
cache_get_miss(r, p) == NoId

\* line 243: SHARED.found_or_created_indexed_tasks.get(index_path)
cache_get(r, p) ==
    IF p \in DOMAIN found_or_created_indexed_tasks[r]
    THEN found_or_created_indexed_tasks[r][p]
    ELSE NoId

\* cache_put that replaces the dict instead of adding to it
cache_put_replace(r, p, task_id) ==
    found_or_created_indexed_tasks' =
        [found_or_created_indexed_tasks EXCEPT ![r] = (p :> task_id)]

\* line 256: SHARED.found_or_created_indexed_tasks[index_path] = task_id
cache_put(r, p, task_id) ==
    found_or_created_indexed_tasks' =
        [found_or_created_indexed_tasks EXCEPT ![r] = (p :> task_id) @@ @]

\* is_not_found that takes every failure of findTask for "no such task"
is_not_found_any(status) == status # 200

\* is_not_found that takes no failure of findTask for "no such task"
is_not_found_never(status) == FALSE

\* lines 250-251: the failure of findTask that means "no such task"
is_not_found(status) == status = 404

\* found_task that leaves the found task out of all_tasks
found_task_forgotten(r, task_id) == all_tasks' = all_tasks

\* lines 248-249: the task findTask found joins the tasks of this run
found_task(r, task_id) ==
    all_tasks' = [all_tasks EXCEPT ![r] = Append(@, task_id)]

\* Task.find_or_create, lines 237-252: up to the answer of findTask.  A
\* cached or found id is returned in this step; after a 404 the route is
\* appended and create() is still to be called.
find_or_create(r, task, index_path, status) ==
    LET p == IndexPath(r, task, index_path)
        routed == [task EXCEPT !.routes = Append(@, IndexRoute(p))]
    IN
    /\ CanCall(r)
    /\ hashed' = IF index_path = None
                 THEN hashed \cup {<<task.worker_type, build_worker_payload(r, task), p>>}
                 ELSE hashed
    /\ IF cache_get(r, p) # NoId
       THEN \* lines 243-245
            /\ status = 200
            /\ calls' = [calls EXCEPT ![r] =
                 Append(@, Call("find_or_create", p, 0, cache_get(r, p), task.routes))]
            /\ UNCHANGED <<now, found_or_created_indexed_tasks, all_tasks, queue, index,
                           pc, graph, decision, creating>>
       ELSE
            /\ status \in FindTaskStatus(p)
            /\ CASE status = 200 ->
                    \* lines 248-249, 256-257
                    /\ found_task(r, index[p])
                    /\ cache_put(r, p, index[p])
                    /\ calls' = [calls EXCEPT ![r] =
                         Append(@, Call("find_or_create", p, status, index[p], task.routes))]
                    /\ UNCHANGED <<now, queue, index, pc, graph, decision, creating>>
                 [] is_not_found(status) ->
                    \* lines 250-253
                    /\ creating' = [creating EXCEPT ![r] =
                           <<[task |-> routed, path |-> p, status |-> status]>>]
                    /\ UNCHANGED <<now, found_or_created_indexed_tasks, all_tasks, queue,
                                   index, pc, calls, graph, decision>>
                 [] OTHER ->
                    \* lines 250-252: re-raised, and nothing in main catches it
                    /\ pc' = [pc EXCEPT ![r] = "failed"]
                    /\ calls' = [calls EXCEPT ![r] =
                         Append(@, Call("find_or_create", p, status, NoId, task.routes))]
                    /\ UNCHANGED <<now, found_or_created_indexed_tasks, all_tasks, queue,
                                   index, graph, decision, creating>>

\* Task.find_or_create, lines 254-257, after findTask answered 404:
\* self.create(), then the new id is cached and returned
find_or_create_create(r) ==
    /\ pc[r] = "running"
    /\ creating[r] # <<>>
    /\ LET task == creating[r][1].task
           p == creating[r][1].path
       IN
       /\ schedule_task(r, slugId(r), queue_payload(r, task))
       /\ cache_put(r, p, slugId(r))
       /\ calls' = [calls EXCEPT ![r] =
            Append(@, Call("find_or_create", p, creating[r][1].status, slugId(r),
                           task.routes))]
    /\ creating' = [creating EXCEPT ![r] = <<>>]
    /\ UNCHANGED <<now, index, pc, graph, decision, hashed>>

\* main of decision_task_pull_request.py: its next call, and its return
\* after the last one
main(r, status) ==
    /\ decision[r] = "pull_request"
    /\ CASE Len(calls[r]) = 0 -> find_or_create(r, LibsTask, LibsPath, status)
         [] Len(calls[r]) = 1 -> find_or_create(r, DesktopLibsTask, DesktopLibsPath, status)
         [] Len(calls[r]) = 2 -> status = 200 /\ create(r, android_arm32(calls[r][1].result))
         [] OTHER ->
            /\ status = 200
            /\ pc[r] = "running"
            /\ pc' = [pc EXCEPT ![r] = "done"]
            /\ UNCHANGED <<now, found_or_created_indexed_tasks, all_tasks, queue, index,
                           calls, graph, decision, creating, hashed>>

\* Shared.build_task_graph, called by main of decision_task.py once every
\* task is created
build_task_graph(r) ==
    /\ pc[r] = "running"
    /\ decision[r] = "any"
    /\ creating[r] = <<>>
    /\ graph' = [graph EXCEPT ![r] = {all_tasks[r][i] : i \in DOMAIN all_tasks[r]}]
    /\ pc' = [pc EXCEPT ![r] = "done"]
    /\ UNCHANGED <<now, found_or_created_indexed_tasks, all_tasks, queue, index,
                   calls, decision, creating, hashed>>

\* The remote side of the route find_or_create adds: a created task that
\* carries "index.<path>" is entered in the index at <path> if it succeeds.
\* It can only run once its dependencies, the decision task among them, are
\* complete.
IndexTask(t) ==
    /\ t \in DOMAIN queue
    /\ pc[queue[t].taskGroupId] = "done"
    /\ \E i \in DOMAIN queue[t].routes :
          LET rt == queue[t].routes[i] IN
          /\ rt.route = "index"
          /\ rt.to \notin DOMAIN index
          /\ index' = (rt.to :> t) @@ index
    /\ UNCHANGED <<now, found_or_created_indexed_tasks, all_tasks, queue, pc, calls,
                   graph, decision, creating, hashed>>

\* Shared.__init__ of each run, an empty queue and an empty index
LibInit ==
    /\ now \in [Runs -> Times]
    /\ now[1] = 0
    /\ found_or_created_indexed_tasks = [r \in Runs |-> <<>>]
    /\ all_tasks = [r \in Runs |-> <<>>]
    /\ queue = <<>>
    /\ index = <<>>
    /\ pc = [r \in Runs |-> "running"]
    /\ calls = [r \in Runs |-> <<>>]
    /\ graph = [r \in Runs |-> {}]
    /\ decision \in [Runs -> {"pull_request", "any"}]
    /\ creating = [r \in Runs |-> <<>>]
    /\ hashed = {}

(***************************************************************************)
(* transforms/deps_complete.py: adjust_dependencies                        *)
(***************************************************************************)

\* A label is a sequence of numbers: <<n>> is the n-th task name, and
\* Append(l, c) is "{} - {}".format(l, c).  Labels are ordered as Python
\* orders strings, position by position, a prefix before its extensions.
RECURSIVE LabelLeq(_, _)
LabelLeq(a, b) ==
    IF a = <<>> THEN TRUE
    ELSE IF b = <<>> THEN FALSE
    ELSE IF a[1] # b[1] THEN a[1] < b[1]
    ELSE LabelLeq(Tail(a), Tail(b))

\* sorted(list): insertion of x into a sorted list, after the entries that
\* are not larger (the sort is stable), then the sort
RECURSIVE Insert(_, _)
Insert(x, s) ==
    IF s = <<>> THEN <<x>>
    ELSE IF LabelLeq(x, s[1]) /\ x # s[1] THEN <<x>> \o s
    ELSE <<s[1]>> \o Insert(x, Tail(s))

\* sorted that leaves the list in the order it came in
sorted_as_listed(s) == s

\* the sorted tail is bound once, as the one element of a set, and the
\* head inserted into it
RECURSIVE sorted(_)
sorted(s) ==
    IF s = <<>> THEN <<>>
    ELSE CHOOSE l \in {Insert(s[1], tail) : tail \in {sorted(Tail(s))}} : TRUE

Range(s) == {s[i] : i \in DOMAIN s}

\* the labels of the tasks a job can depend on, and the label of the job
DepLabels == {<<n>> : n \in 1..NumLabels}
JobLabel == <<0>>

\* the lists of at most n labels
RECURSIVE LabelLists(_)
LabelLists(n) ==
    IF n = 0 THEN {<<>>}
    ELSE LET shorter == LabelLists(n - 1) IN
         shorter \cup {Append(l, d) : l \in {x \in shorter : Len(x) = n - 1}, d \in DepLabels}

\* the job labelled label with the soft-dependencies l, as it comes out of
\* add_alert_routes at level 3 (lines 70-74)
JobLabelled(label, l) ==
    [label |-> label, routes |-> <<"notify.email.on-failed">>,
     requires |-> "all-resolved"] @@ ("soft-dependencies" :> l)

\* the same job as it comes out of add_alert_routes at another level (lines
\* 66-68): the task is yielded as it is, with no routes field
at_other_level(j) == [k \in DOMAIN j \ {"routes"} |-> j[k]]

\* the jobs the transforms of this file hand on to adjust_dependencies:
\* convert_dependencies has set soft-dependencies, add_alert_routes has set
\* routes at level 3 and left the job without the field at the other
\* levels.  The run transforms of the taskgraph library come in between
\* (lines 85-86); a job they give a routes field is chunked like the jobs of
\* level 3.
Jobs ==
    {JobLabelled(JobLabel, l) : l \in LabelLists(MaxDeps)} \cup
    {at_other_level(JobLabelled(JobLabel, l)) : l \in LabelLists(MaxDeps)}

\* a job with 37 soft-dependencies, listed from the largest label down
BigJob ==
    [label |-> JobLabel, routes |-> <<"notify.email.on-failed">>,
     requires |-> "all-resolved"] @@ ("soft-dependencies" :> [i \in 1..37 |-> <<38 - i>>])

\* child_label that gives the child the label of its parent
child_label_of_parent(label, count) == label

\* "{} - {}".format(orig_job["label"], count)
child_label(label, count) == Append(label, count)

\* adjust_dependencies_child_job without line 96: the child keeps the routes
adjust_dependencies_child_job_with_routes(orig_job, chunk, count) ==
    [orig_job EXCEPT !["soft-dependencies"] = chunk,
                     !.label = child_label(orig_job.label, count)]

\* adjust_dependencies_child_job, lines 92-97, of a job that has routes
adjust_dependencies_child_job(orig_job, chunk, count) ==
    LET copy == [orig_job EXCEPT !["soft-dependencies"] = chunk,
                                 !.label = child_label(orig_job.label, count)]
    IN [k \in DOMAIN copy \ {"routes"} |-> copy[k]]

\* over_limit that lets one dependency too many through
over_limit_by_one(d) == Len(d) > MAX_DEPENDENCIES + 1

\* line 107: len(deps) > MAX_DEPENDENCIES
over_limit(d) == Len(d) > MAX_DEPENDENCIES

\* line 109: deps[:MAX_DEPENDENCIES]
first_chunk(d) == SubSeq(d, 1, MAX_DEPENDENCIES)

\* rest_of that loses the dependency after the chunk
rest_of_skipping_one(d) == SubSeq(d, MAX_DEPENDENCIES + 2, Len(d))

\* rest_of that leaves the chunk in the list
rest_of_whole(d) == d

\* line 109: deps[MAX_DEPENDENCIES:]
rest_of(d) == SubSeq(d, MAX_DEPENDENCIES + 1, Len(d))

\* lines 103-105: the loop body starts on a job
ChunkBegin ==
    /\ cpc = "start"
    /\ counter' = 1
    /\ deps' = sorted(job["soft-dependencies"])
    /\ cpc' = "loop"
    /\ UNCHANGED <<MAX_DEPENDENCIES, jobs, input, job, yielded, previous>>

\* lines 107-113: one round of the while loop, up to the yield of the
\* child, where adjust_dependencies is suspended; line 96 raises KeyError
\* for a job without a routes field, after lines 109 and 111 took the chunk
\* and the count. A job has at most MaxDeps soft-dependencies, so a loop that ends
\* yields fewer than MaxDeps children; the guard on counter stops the loop
\* that does not end.
ChunkSplit ==
    /\ cpc = "loop"
    /\ over_limit(deps)
    /\ counter <= MaxDeps + 1
    /\ deps' = rest_of(deps)
    /\ counter' = counter + 1
    /\ IF "routes" \in DOMAIN job
       THEN /\ yielded' = Append(yielded,
                                 adjust_dependencies_child_job(job, first_chunk(deps), counter))
            /\ cpc' = "yielded"
       ELSE /\ yielded' = yielded
            /\ cpc' = "KeyError"
    /\ UNCHANGED <<MAX_DEPENDENCIES, jobs, input, job, previous>>

\* line 114: adjust_dependencies is asked for the next job and appends the
\* label of the child it yielded
ChunkResume ==
    /\ cpc = "yielded"
    /\ deps' = Append(deps, yielded[Len(yielded)].label)
    /\ cpc' = "loop"
    /\ UNCHANGED <<MAX_DEPENDENCIES, jobs, input, job, counter, yielded, previous>>

\* lines 116-118: the parent is yielded with what is left
ChunkYieldParent ==
    /\ cpc = "loop"
    /\ ~over_limit(deps)
    /\ job' = [job EXCEPT !["soft-dependencies"] = deps]
    /\ yielded' = Append(yielded, job')
    /\ cpc' = "done"
    /\ UNCHANGED <<MAX_DEPENDENCIES, jobs, input, deps, counter, previous>>

\* the list l with its entries i and i + 1 exchanged
swap(l, i) == [l EXCEPT ![i] = l[i + 1], ![i + 1] = l[i]]
\* the list l with its first entry moved to the end
rotated(l) == IF l = <<>> THEN l ELSE Append(Tail(l), l[1])
\* reversed(l)
reversed(l) == [i \in DOMAIN l |-> l[Len(l) + 1 - i]]

\* the orders the soft-dependencies l of a job are listed in by another run:
\* in a list of at most MaxDeps entries the first two exchanged or the first
\* moved to the end, which run after run reaches every order of the list;
\* a longer list reversed
Reorderings(l) ==
    IF Len(l) <= MaxDeps
    THEN {rotated(l)} \cup (IF Len(l) >= 2 THEN {swap(l, 1)} ELSE {})
    ELSE {reversed(l)}

\* lines 100-102: adjust_dependencies runs again, on the same job with the
\* same soft-dependencies listed in another order
ChunkRerun ==
    /\ cpc = "done"
    /\ \E l \in Reorderings(input["soft-dependencies"]) :
          input' = [input EXCEPT !["soft-dependencies"] = l]
    /\ job' = input'
    /\ previous' = <<[listed |-> input["soft-dependencies"], yielded |-> yielded]>>
    /\ yielded' = <<>>
    /\ deps' = <<>>
    /\ counter' = 0
    /\ cpc' = "start"
    /\ UNCHANGED <<MAX_DEPENDENCIES, jobs>>

\* no job is being chunked
ChunkIdle ==
    /\ MAX_DEPENDENCIES = 0
    /\ jobs = <<>>
    /\ input = <<>>
    /\ job = <<>>
    /\ deps = <<>>
    /\ counter = 0
    /\ yielded = <<>>
    /\ previous = <<>>
    /\ cpc = "idle"

\* adjust_dependencies is handed one job: any of Jobs under a small
\* MAX_DEPENDENCIES, or the job with 37 dependencies under a maximum of 15
ChunkInit ==
    /\ \/ MAX_DEPENDENCIES \in 1..MaxMaxDependencies /\ input \in Jobs
       \/ MAX_DEPENDENCIES = 15 /\ input = BigJob
    /\ jobs = <<>>
    /\ job = input
    /\ deps = <<>>
    /\ counter = 0
    /\ yielded = <<>>
    /\ previous = <<>>
    /\ cpc = "start"

\* the labels of the jobs of the kind: a job label, the same label followed
\* by " - 1", and another job label
OtherJobLabel == <<NumLabels + 1>>
JobLabels == {JobLabel, child_label(JobLabel, 1), OtherJobLabel}

\* the soft-dependencies convert_dependencies gives every job of the kind:
\* the labels of the tasks of the kind's dependencies, each once
KindDependenciesLabels ==
    {l \in LabelLists(MaxFedDeps) : Cardinality(Range(l)) = Len(l) /\ sorted(l) = l}

\* the lists of two jobs fed to adjust_dependencies, with distinct labels,
\* at level 3 (alert routes) and at another level (no routes field)
JobsFed ==
    LET at_level_3 ==
          {<<JobLabelled(ab[1], l), JobLabelled(ab[2], m)>> :
              ab \in {x \in JobLabels \X JobLabels : x[1] # x[2]},
              l \in KindDependenciesLabels, m \in KindDependenciesLabels}
    IN at_level_3 \cup {[i \in DOMAIN js |-> at_other_level(js[i])] : js \in at_level_3}

\* line 102: the for loop takes the next job
ChunkNextJob ==
    /\ cpc = "done"
    /\ jobs # <<>>
    /\ input' = Head(jobs)
    /\ job' = Head(jobs)
    /\ jobs' = Tail(jobs)
    /\ cpc' = "start"
    /\ UNCHANGED <<MAX_DEPENDENCIES, deps, counter, yielded, previous>>

\* adjust_dependencies is handed two jobs and takes the first
JobsInit ==
    /\ MAX_DEPENDENCIES \in 2..MaxMaxDependencies
    /\ \E js \in JobsFed : input = js[1] /\ jobs = Tail(js)
    /\ job = input
    /\ deps = <<>>
    /\ counter = 0
    /\ yielded = <<>>
    /\ previous = <<>>
    /\ cpc = "start"

(***************************************************************************)
(* scripts/deps-complete.py: the check the deps-complete tasks run         *)
(***************************************************************************)

\* the states a dependency is found in once it is resolved
ResolvedStates == {"completed", "failed", "exception"}

\* lines 31-42: the tasks of the group among the dependencies of the task;
\* the dependencies that are not in the group are left out
get_dependent_task_data(task_map, dependency_ids) ==
    SelectSeq(dependency_ids, LAMBDA task_id : task_id \in DOMAIN task_map)

\* lines 45-52: some dependency of the group is not "completed"
check_dependent_tasks(task_map, dependency_ids) ==
    LET data == get_dependent_task_data(task_map, dependency_ids) IN
    \E i \in DOMAIN data : task_map[data[i]] # "completed"

\* a script whose exit status is 0 whatever it found
exit_status_zero(some_task_failed) == 0

\* lines 55-62: main exits with 1 when some task failed, with 0 otherwise
exit_status(some_task_failed) == IF some_task_failed THEN 1 ELSE 0

\* the state the queue gives a task whose command exited with status
state_of_exit(status) == IF status = 0 THEN "completed" ELSE "failed"

\* the yielded jobs that have not run yet and whose dependencies in the
\* group are all resolved ("requires": "all-resolved", deps_complete.py:23)
Runnable ==
    {i \in DOMAIN yielded :
        /\ yielded[i].label \notin DOMAIN task_group
        /\ \A j \in DOMAIN yielded :
              yielded[j].label \in Range(yielded[i]["soft-dependencies"])
                 => yielded[j].label \in DOMAIN task_group}

\* a deps-complete task runs the script on its dependencies and is resolved
DepsCompleteRun ==
    /\ cpc = "done"
    /\ \E i \in Runnable :
          task_group' =
             (yielded[i].label :>
                state_of_exit(exit_status(
                    check_dependent_tasks(task_group, yielded[i]["soft-dependencies"]))))
             @@ task_group
    /\ UNCHANGED <<MAX_DEPENDENCIES, jobs, input, job, deps, counter, yielded, previous, cpc>>

\* the soft-dependencies of the job: some of the tasks of the kinds it
\* depends on, each once
OriginalDependencies ==
    {l \in LabelLists(NumLabels) : Cardinality(Range(l)) = Len(l) /\ sorted(l) = l}

\* the decision task's group when the deps-complete tasks start: the
\* dependencies that were not replaced by cached tasks, each resolved
TaskGroups(l) ==
    UNION {[S -> ResolvedStates] : S \in SUBSET Range(l)}

\* no deps-complete task is at hand
ScriptIdle == task_group = <<>>

\* a job is handed to adjust_dependencies, at level 3 or at another level
\* (with or without a routes field);
\* its dependencies are resolved
ScriptInit ==
    /\ MAX_DEPENDENCIES \in 2..MaxMaxDependencies
    /\ \E l \in OriginalDependencies :
          /\ input \in {JobLabelled(JobLabel, l), at_other_level(JobLabelled(JobLabel, l))}
          /\ task_group \in TaskGroups(l)
    /\ jobs = <<>>
    /\ job = input
    /\ deps = <<>>
    /\ counter = 0
    /\ yielded = <<>>
    /\ previous = <<>>
    /\ cpc = "start"

(***************************************************************************)
(* transforms/__init__.py and loader/__init__.py: component_grouping       *)
(***************************************************************************)

\* the kinds of the tasks handed to component_grouping: one that the
\* kind-dependencies of the grouping kind list, one that they do not
Kinds == {"module-build", "lint"}
KindDependencies == {"module-build"}

\* task.attributes: with a buildconfig naming the component, or without
Components == {"a", "b", "all"}
BuildconfigAttributes == {[buildconfig |-> [name |-> c]] : c \in Components}
NoAttributes == <<>>

\* the Task objects with label n; copy tells a deep copy from the object
\* it was made from
TasksLabelled(n) ==
    {[label |-> <<n>>, kind |-> k, attributes |-> a, copy |-> FALSE] :
        k \in Kinds, a \in BuildconfigAttributes \cup {NoAttributes}}

\* the lists of exactly n tasks, labelled 1..n
RECURSIVE TaskLists(_)
TaskLists(n) ==
    IF n = 0 THEN {<<>>}
    ELSE {Append(l, t) : l \in TaskLists(n - 1), t \in TasksLabelled(n)}

\* copy.deepcopy of a task, and of a list of tasks
deepcopy(task) == [task EXCEPT !.copy = TRUE]
deepcopy_list(l) == [i \in DOMAIN l |-> deepcopy(l[i])]

\* groups.setdefault(component, []).append(task): groups is a dict, kept as
\* the list of its items in insertion order
setdefault_append(grp, component, task) ==
    IF \E i \in DOMAIN grp : grp[i].component = component
    THEN [i \in DOMAIN grp |->
            IF grp[i].component = component
            THEN [grp[i] EXCEPT !.tasks = Append(@, task)] ELSE grp[i]]
    ELSE Append(grp, [component |-> component, tasks |-> <<task>>])

\* line 63 (38): the kind of the task is not among the kind-dependencies
other_kind(task, kind_deps) == task.kind \notin kind_deps

\* is_all that sends no component to every group
is_all_never(component) == FALSE

\* line 68 (43): component == "all"
is_all(component) == component = "all"

\* lines 62-71 (37-46): the first loop, from groups grp over the tasks l;
\* task.attributes["buildconfig"] raises KeyError when there is none
RECURSIVE group_loop(_, _, _)
group_loop(grp, l, kind_deps) ==
    IF l = <<>> THEN [raised |-> FALSE, groups |-> grp]
    ELSE LET task == l[1] IN
         IF other_kind(task, kind_deps) THEN group_loop(grp, Tail(l), kind_deps)
         ELSE IF "buildconfig" \notin DOMAIN task.attributes
         THEN [raised |-> TRUE, groups |-> grp]
         ELSE IF is_all(task.attributes.buildconfig.name)
         THEN group_loop(grp, Tail(l), kind_deps)
         ELSE group_loop(setdefault_append(grp, task.attributes.buildconfig.name, task),
                         Tail(l), kind_deps)

\* lines 73-77 (48-51): the tasks of any kind whose buildconfig is named "all"
tasks_for_all_components(l) ==
    SelectSeq(l, LAMBDA task :
        IF "buildconfig" \in DOMAIN task.attributes
        THEN task.attributes.buildconfig.name = "all" ELSE FALSE)

\* component_grouping: the groups dict, or the KeyError
component_grouping(kind_deps, l) ==
    LET first == group_loop(<<>>, l, kind_deps) IN
    IF first.raised THEN first
    ELSE [raised |-> FALSE,
          groups |-> [i \in DOMAIN first.groups |->
                        [first.groups[i] EXCEPT
                            !.tasks = @ \o deepcopy_list(tasks_for_all_components(l))]]]

\* dict.values()
values(grp) == [i \in DOMAIN grp |-> grp[i].tasks]

\* transforms/__init__.py, line 81: component_grouping returns groups.values()
FromDepsGrouping ==
    /\ gpc = "start"
    /\ LET r == component_grouping(kind_dependencies, tasks) IN
       IF r.raised
       THEN gpc' = "KeyError" /\ groups' = <<>>
       ELSE gpc' = "from-deps" /\ groups' = values(r.groups)
    /\ UNCHANGED <<kind_dependencies, tasks, grouped>>

\* loader/__init__.py, group_tasks, from its start to its first yield:
\* lines 25-27 make the groups; line 30 copies the first group and line 31
\* yields it; without a group the generator is at its end
group_tasks ==
    /\ gpc = "start"
    /\ LET r == component_grouping(kind_dependencies, tasks) IN
       IF r.raised
       THEN gpc' = "KeyError" /\ groups' = <<>> /\ grouped' = <<>>
       ELSE /\ grouped' = values(r.groups)
            /\ IF r.groups = <<>>
               THEN gpc' = "group_tasks" /\ groups' = <<>>
               ELSE gpc' = "yielded" /\ groups' = <<deepcopy_list(values(r.groups)[1])>>
    /\ UNCHANGED <<kind_dependencies, tasks>>

\* group_tasks is asked for the next group: lines 29-31 copy the group
\* after the ones yielded and yield it; after the last group the generator
\* is at its end
group_tasks_next ==
    /\ gpc = "yielded"
    /\ IF Len(groups) < Len(grouped)
       THEN gpc' = gpc /\ groups' = Append(groups, deepcopy_list(grouped[Len(groups) + 1]))
       ELSE gpc' = "group_tasks" /\ groups' = groups
    /\ UNCHANGED <<kind_dependencies, tasks, grouped>>

\* no tasks are being grouped
GroupIdle ==
    /\ kind_dependencies = {}
    /\ tasks = <<>>
    /\ groups = <<>>
    /\ grouped = <<>>
    /\ gpc = "idle"

\* the grouping is handed the tasks loaded so far
GroupInit ==
    /\ kind_dependencies = KindDependencies
    /\ \E n \in 0..MaxTasks : tasks \in TaskLists(n)
    /\ groups = <<>>
    /\ grouped = <<>>
    /\ gpc = "start"

(***************************************************************************)
(* target_tasks.py: the target task strategies                             *)
(***************************************************************************)

\* dict.get(key, default)
get(d, key, default) == IF key \in DOMAIN d THEN d[key] ELSE default

\* the attributes the pull request strategies read
PrAttributes ==
    {tf @@ pt @@ rt :
        tf \in {<<>>, "run_on_tasks_for" :> <<"github-push">>},
        pt \in {<<>>} \cup {"run-on-pr-type" :> v : v \in {"all", "normal-ci", "full-ci"}},
        rt \in {<<>>, "release-type" :> "release-only"}}

\* the attributes the nightly, promote and ship strategies read
ShippingAttributes ==
    {n @@ sp :
        n \in {<<>>, "nightly" :> TRUE},
        sp \in {<<>>} \cup {"shipping_phase" :> v : v \in {"build", "promote", "ship"}}}

\* the task graphs of exactly n tasks, labelled 1..n: full_task_graph.tasks
\* as the list of its tasks in the order of the dict
RECURSIVE TaskGraphs(_)
TaskGraphs(n) ==
    IF n = 0 THEN {<<>>}
    ELSE {Append(g, [label |-> <<n>>, attributes |-> a]) :
            g \in TaskGraphs(n - 1), a \in PrAttributes \cup ShippingAttributes}

\* parameters["tasks_for"] and parameters["head_rev"]
TasksFor == {"github-pull-request", "github-push"}
HeadRevs == {"rev1", "rev2"}

\* [l for l, task in full_task_graph.tasks.items() if keep(task)], for the
\* list kept of the tasks that keep holds of
labels_kept(kept) == [i \in DOMAIN kept |-> kept[i].label]

\* taskgraph's filter_for_tasks_for: run_on_tasks_for, ["all"] when unset,
\* holds "all" or the trigger
filter_for_tasks_for(task, trigger) ==
    LET run_on_tasks_for == Range(get(task.attributes, "run_on_tasks_for", <<"all">>))
    IN "all" \in run_on_tasks_for \/ trigger \in run_on_tasks_for

\* lines 13-20: filter_out_shipping_phase
filter_out_shipping_phase(task) ==
    \/ get(task.attributes, "nightly", FALSE)
    \/ get(task.attributes, "shipping_phase", None) \in {None, "build"}

\* lines 23-25
target_tasks_pr_skip(g) == <<>>

\* target_tasks_release that leaves out the tasks of a shipping phase
target_tasks_release_unshipped(g) == labels_kept(SelectSeq(g, filter_out_shipping_phase))

\* lines 35-37: the dict of all tasks, that is, all labels
target_tasks_release(g) == labels_kept(g)

\* the answers find_task_id can give for the nightly decision task of
\* revision rev: found, not found, or another failure
FindTaskIdStatus(rev) == (IF rev \in nightly_index THEN {200} ELSE {404}) \cup {500}

\* already_ran that never finds the earlier nightly
already_ran_never(status) == FALSE

\* lines 43-54: the try statement reaches its else branch
already_ran(status) == status = 200

\* an except clause that catches the not-found answer only
caught_not_found_only(status) == status = 404

\* line 48: except BaseException catches whatever find_task_id raises
caught(status) == status # 200

\* lines 40-59
target_tasks_nightly(g, status) ==
    IF already_ran(status) THEN <<>> ELSE labels_kept(SelectSeq(g, filter_out_shipping_phase))

\* run_on_pr_type without the default of "all"
run_on_pr_type_no_default(task) == get(task.attributes, "run-on-pr-type", None)

\* lines 70, 85: task.attributes.get("run-on-pr-type", "all")
run_on_pr_type(task) == get(task.attributes, "run-on-pr-type", "all")

\* lines 62-74: "pr-full"
target_tasks_all(g, trigger) ==
    labels_kept(SelectSeq(g, LAMBDA task :
        /\ filter_for_tasks_for(task, trigger)
        /\ run_on_pr_type(task) \in {"full-ci", "all"}
        /\ get(task.attributes, "release-type", None) # "release-only"))

\* lines 77-89: "pr-normal"
target_tasks_default(g, trigger) ==
    labels_kept(SelectSeq(g, LAMBDA task :
        /\ filter_for_tasks_for(task, trigger)
        /\ run_on_pr_type(task) \in {"normal-ci", "all"}
        /\ get(task.attributes, "release-type", None) # "release-only"))

\* filter_release_promotion that forgets the candidates
filter_release_promotion_phase_only(g, candidates, shipping_phase) ==
    labels_kept(SelectSeq(g, LAMBDA task :
        get(task.attributes, "shipping_phase", None) = shipping_phase))

\* lines 92-101
filter_release_promotion(g, candidates, shipping_phase) ==
    labels_kept(SelectSeq(g, LAMBDA task :
        \/ task.label \in Range(candidates)
        \/ get(task.attributes, "shipping_phase", None) = shipping_phase))

\* lines 104-110
target_tasks_promote(g) == filter_release_promotion(g, <<>>, "promote")

\* the names the strategies are registered under (register_target_task,
\* lines 23, 35, 40, 62, 77, 104, 113)
registered_target_tasks ==
    {"pr-skip", "full", "nightly", "pr-full", "pr-normal", "promote", "ship"}

\* a strategy that empties the graph it was handed
Returned_draining(m, labels) ==
    /\ \/ method = "none" /\ earlier' = earlier
       \/ /\ method = m
          /\ earlier = <<>>
          /\ earlier' = <<[target_tasks |-> target_tasks, lookup |-> lookup]>>
    /\ method' = m
    /\ target_tasks' = labels
    /\ full_task_graph' = <<>>
    /\ UNCHANGED <<tasks_for, head_rev, nightly_index>>

\* the strategy registered as m has run and returned labels: for the first
\* time, or for the second time on the same graph and parameters
Returned(m, labels) ==
    /\ \/ method = "none" /\ earlier' = earlier
       \/ /\ method = m
          /\ earlier = <<>>
          /\ earlier' = <<[target_tasks |-> target_tasks, lookup |-> lookup]>>
    /\ method' = m
    /\ target_tasks' = labels
    /\ UNCHANGED <<full_task_graph, tasks_for, head_rev, nightly_index>>

\* the strategy registered as m has raised
Raised(m) ==
    /\ method \in {"none", m}
    /\ method' = "raised"
    /\ target_tasks' = <<>>
    /\ UNCHANGED <<full_task_graph, tasks_for, head_rev, nightly_index, earlier>>

PrSkip ==
    Returned("pr-skip", target_tasks_pr_skip(full_task_graph))
       /\ UNCHANGED <<lookup, filtered_for_candidates>>

Full ==
    Returned("full", target_tasks_release(full_task_graph))
       /\ UNCHANGED <<lookup, filtered_for_candidates>>

Nightly ==
    \E status \in FindTaskIdStatus(head_rev) :
        /\ IF status = 200 \/ caught(status)
           THEN Returned("nightly", target_tasks_nightly(full_task_graph, status))
           ELSE Raised("nightly")
        /\ lookup' = status
        /\ UNCHANGED filtered_for_candidates

PrFull ==
    Returned("pr-full", target_tasks_all(full_task_graph, tasks_for))
       /\ UNCHANGED <<lookup, filtered_for_candidates>>

PrNormal ==
    Returned("pr-normal", target_tasks_default(full_task_graph, tasks_for))
       /\ UNCHANGED <<lookup, filtered_for_candidates>>

Promote ==
    Returned("promote", target_tasks_promote(full_task_graph))
       /\ UNCHANGED <<lookup, filtered_for_candidates>>

\* lines 113-122
Ship ==
    /\ filtered_for_candidates' = target_tasks_promote(full_task_graph)
    /\ Returned("ship", filter_release_promotion(full_task_graph,
                                                 filtered_for_candidates', "ship"))
    /\ UNCHANGED lookup

\* no strategy has a graph to select from
TargetIdle ==
    /\ full_task_graph = <<>>
    /\ tasks_for = None
    /\ head_rev = None
    /\ nightly_index = {}
    /\ method = "idle"
    /\ lookup = 0
    /\ filtered_for_candidates = <<>>
    /\ target_tasks = <<>>
    /\ earlier = <<>>

\* a full task graph and the parameters of the run are at hand
TargetInit ==
    /\ \E n \in 0..MaxGraph : full_task_graph \in TaskGraphs(n)
    /\ tasks_for \in TasksFor
    /\ head_rev \in HeadRevs
    /\ nightly_index \in {{}, {"rev1"}}
    /\ method = "none"
    /\ lookup = 0
    /\ filtered_for_candidates = <<>>
    /\ target_tasks = <<>>
    /\ earlier = <<>>

(***************************************************************************)
(* app_services_taskgraph/__init__.py: get_decision_parameters             *)
(***************************************************************************)

\* a str is the list of its characters
Str1 == <<"1">>
Str2 == <<"2">>
ReleasePrefix == <<"r", "e", "l", "e", "a", "s", "e", "-">>

\* parameters["tasks_for"], parameters["head_tag"] and the in-tree version
Triggers == {"github-release", "github-pull-request", "github-push", "cron", "action"}
HeadTags == {<<>>, <<"v">> \o Str1, <<"v">> \o Str2, <<"x">> \o Str1, Str1,
             ReleasePrefix \o Str1}
Versions == {Str1, Str2}

\* APPSERVICES_PULL_REQUEST_TITLE: a title is the list of its tags and words
\* "[preview <word>]", "[ci <word>]" and plain words
PreviewTags == {[tag |-> "preview", word |-> w] : w \in {"nightly", "release", "beta"}}
CiFull == [tag |-> "ci", word |-> "full"]
CiSkip == [tag |-> "ci", word |-> "skip"]
TitleParts == PreviewTags \cup {CiFull, CiSkip, [tag |-> "", word |-> "fix"]}
RECURSIVE Titles(_)
Titles(n) ==
    IF n = 0 THEN {<<>>}
    ELSE LET shorter == Titles(n - 1) IN
         shorter \cup {Append(t, w) : t \in {x \in shorter : Len(x) = n - 1}, w \in TitleParts}

\* d[key] = value
put(d, key, value) == (key :> value) @@ d

\* head_tag.startswith(prefix)
startswith(s, prefix) == Len(s) >= Len(prefix) /\ SubSeq(s, 1, Len(prefix)) = prefix

\* the places of the "[preview <word>]" tags in the title
PreviewPlaces(title) == {i \in DOMAIN title : title[i] \in PreviewTags}

\* preview_match that takes the last tag of the title
preview_match_last(title) ==
    IF PreviewPlaces(title) = {} THEN None
    ELSE title[CHOOSE i \in PreviewPlaces(title) : \A j \in PreviewPlaces(title) : j <= i].word

\* line 68: PREVIEW_RE.search(pr_title), then group(1): the word of the
\* first tag, None without a match
preview_match(title) ==
    IF PreviewPlaces(title) = {} THEN None
    ELSE title[CHOOSE i \in PreviewPlaces(title) : \A j \in PreviewPlaces(title) : i <= j].word

\* lines 94-97
with_branch_build(p) ==
    put(put(p, "branch-build", <<>>), "filters", Append(p.filters, "branch-build"))

\* lines 49-97: the parameters afterwards, or the error raised
get_decision_parameters_result(p, title, v) ==
    LET done(q) == [raised |-> "no", parameters |-> with_branch_build(q)]
        raise(x) == [raised |-> x, parameters |-> p]
    IN
    CASE p.tasks_for = "github-release" ->
            IF p.head_tag = <<>> THEN raise("ValueError")
            \* lines 60-64: the message names the field {version} and format()
            \* is handed the version by position
            ELSE IF Tail(p.head_tag) # v THEN raise("KeyError")
            ELSE done(put(p, "target_tasks_method", "full"))
      [] p.tasks_for = "github-pull-request" ->
            IF preview_match(title) # None
            THEN IF preview_match(title) = "nightly"
                 THEN done(put(put(p, "preview-build", "nightly"),
                               "target_tasks_method", "full"))
                 ELSE IF preview_match(title) = "release"
                 THEN done(put(put(p, "target_tasks_method", "full"),
                               "release-type", "release"))
                 ELSE raise("TypeError")
            ELSE IF CiFull \in Range(title)
            THEN done(put(p, "target_tasks_method", "pr-full"))
            ELSE IF CiSkip \in Range(title)
            THEN done(put(p, "target_tasks_method", "pr-skip"))
            ELSE done(put(p, "target_tasks_method", "pr-normal"))
      [] p.tasks_for = "github-push" ->
            IF startswith(p.head_tag, ReleasePrefix)
            THEN done(put(put(p, "target_tasks_method", "release"),
                          "release-type", "release"))
            ELSE done(p)
      [] p.tasks_for = "cron" ->
            done(put(put(p, "preview-build", "nightly"), "release-type", "nightly"))
      [] OTHER -> done(p)

\* get_decision_parameters is called on the parameters of the run
get_decision_parameters ==
    /\ dpc = "start"
    /\ LET r == get_decision_parameters_result(parameters, pr_title, version) IN
       /\ parameters' = r.parameters
       /\ dpc' = IF r.raised = "no" THEN "done" ELSE r.raised
    /\ UNCHANGED <<pr_title, version>>

\* branch_builds.py lines 14-16: update_decision_parameters, which any caller
\* may run on the parameters
update_decision_parameters ==
    /\ dpc \in {"start", "done"}
    /\ Len(parameters.filters) < MaxFilters
    /\ parameters' = with_branch_build(parameters)
    /\ UNCHANGED <<pr_title, version, dpc>>

\* no decision parameters are being computed
ParamsIdle ==
    /\ parameters = <<>>
    /\ pr_title = <<>>
    /\ version = <<>>
    /\ dpc = "idle"

\* the parameters taskgraph hands to get_decision_parameters
ParamsInit ==
    /\ \E t \in Triggers, h \in HeadTags :
          parameters = [tasks_for |-> t, head_tag |-> h, target_tasks_method |-> "default",
                        filters |-> <<"target_tasks_method">>]
    /\ pr_title \in Titles(MaxTitle)
    /\ version \in Versions
    /\ dpc = "start"

(***************************************************************************)
(* transforms/beetmover.py: the beetmover transform sequence               *)
(***************************************************************************)

\* lines 24-195: the transforms in the order @transforms.add registers them
\* in, with build_artifact_map moved ahead of build_upstream_artifacts
beetmover_transforms_map_first ==
    <<"adjust_name", "resolve_keys", "build_artifact_map", "build_upstream_artifacts",
      "split_by_release_phase", "add_remaining_beetmover_config">>

\* lines 24-195: the transforms in the order @transforms.add registers them in
beetmover_transforms ==
    <<"adjust_name", "resolve_keys", "build_upstream_artifacts",
      "split_by_release_phase", "build_artifact_map", "add_remaining_beetmover_config">>

\* lines 18-21
DESTINATION_PATHS ==
    ("promote" :> <<"pub/app-services/candidates/candidates-{version}/build{build}">>) @@
    ("ship" :> <<"pub/app-services/releases/{version}">>)

\* a value of worker.action: a string, or the by-level form that gives one
\* string for level 3 and another by default
Str(s) == [by |-> "", three |-> "", default |-> "", str |-> s]
ByLevel(three, default) == [by |-> "level", three |-> three, default |-> default, str |-> ""]

\* config.params["level"]
Levels == {"1", "3"}
\* config.graph_config["release-promotion"]["flavors"]
Flavors == {<<"promote", "ship">>, <<"ship">>}

\* the tasks the kind hands to the sequence: the kind of the primary
\* dependency, a worker section or none, worker.action or none, and the
\* attributes with or without a shipping_phase
WorkerSections ==
    {("action" :> a) : a \in {Str("push-to-maven"),
                              ByLevel("push-to-maven", "push-to-candidates")}}
BeetmoverAttributes ==
    {("buildconfig" :> "a")} \cup
    {("buildconfig" :> "a") @@ ("shipping_phase" :> p) : p \in {"promote", "ship"}}
BeetmoverTasks ==
    {[name |-> <<"beetmover">>, description |-> "Publish {}", dep_kind |-> k,
      attributes |-> a] : k \in {"swift", "module-build"}, a \in BeetmoverAttributes} \cup
    {[name |-> <<"beetmover">>, description |-> "Publish {}", dep_kind |-> k,
      attributes |-> a] @@ ("worker" :> w)
        : k \in {"swift", "module-build"}, a \in BeetmoverAttributes, w \in WorkerSections}

\* the lists of at most n tasks, each on its way into the first transform
\* (at), with the number of flavors split_by_release_phase has made a copy
\* of it for (phase)
RECURSIVE BeetmoverLists(_)
BeetmoverLists(n) ==
    IF n = 0 THEN {<<>>}
    ELSE LET shorter == BeetmoverLists(n - 1) IN
         shorter \cup {Append(l, [task |-> t, at |-> 0, origin |-> n, phase |-> 0])
                         : l \in {x \in shorter : Len(x) = n - 1}, t \in BeetmoverTasks}

\* a transform went well and yielded the tasks out, or raised
yield(out) == [raised |-> "no", out |-> out]
raise(error) == [raised |-> error, out |-> <<>>]

\* task["worker"].get("action"), lines 92, 185, 202, for a task that has a
\* worker section
worker_get_action(task) ==
    IF "action" \in DOMAIN task.worker THEN task.worker.action ELSE Str(None)

\* lines 24-30
adjust_name(task) ==
    yield(<<IF task.dep_kind = "swift" THEN [task EXCEPT !.name = <<"swift-build">>] ELSE task>>)

\* taskgraph's evaluate_keyed_by for by-level: the alternative of the level,
\* else the default; a value that is not keyed stays
evaluate_keyed_by(value, lvl) ==
    IF value.by = "level" THEN Str(IF lvl = "3" THEN value.three ELSE value.default)
    ELSE value

\* lines 33-40: resolve_keyed_by leaves a task without the field alone
resolve_keys(task, lvl) ==
    yield(<<IF "worker" \in DOMAIN task
            THEN IF "action" \in DOMAIN task.worker
                 THEN [task EXCEPT !.worker.action = evaluate_keyed_by(@, lvl)]
                 ELSE task
            ELSE task>>)

\* lines 43-62, for the one dependency of the task: the swift build has
\* release-artifacts, the module build has none listed
build_upstream_artifacts_of_dependency(task) ==
    IF task.dep_kind = "swift"
    THEN <<[taskId |-> task.dep_kind, taskType |-> "repackage"]>>
    ELSE <<>>

\* lines 65-85
build_maven_upstream_artifacts(task) ==
    <<[taskId |-> "module-build", taskType |-> "build"],
      [taskId |-> "signing", taskType |-> "signing"]>>

\* lines 88-102
build_upstream_artifacts(task) ==
    IF "worker" \in DOMAIN task
    THEN yield(<<[task EXCEPT !.worker =
                    ("upstream-artifacts" :>
                        IF worker_get_action(task) = Str("push-to-maven")
                        THEN build_maven_upstream_artifacts(task)
                        ELSE build_upstream_artifacts_of_dependency(task)) @@ @]>>)
    ELSE yield(<<task @@ ("worker" :> ("upstream-artifacts" :>
                                         build_upstream_artifacts_of_dependency(task)))>>)

\* lines 105-117, up to the next yield: the task itself when it has a
\* shipping_phase, else the copy for the flavor after the done ones, and
\* nothing when the loop of line 113 has come to its end
split_by_release_phase(task, phases, done) ==
    IF "shipping_phase" \in DOMAIN task.attributes
    THEN yield(<<task>>)
    ELSE IF done < Len(phases)
    THEN yield(<<[task EXCEPT !.attributes = ("shipping_phase" :> phases[done + 1]) @@ @,
                              !.name = Append(@, phases[done + 1])]>>)
    ELSE yield(<<>>)

\* lines 120-150
build_plain_artifact_map(task) ==
    [i \in DOMAIN task.worker["upstream-artifacts"] |->
        [task_id |-> task.worker["upstream-artifacts"][i].taskId,
         destinations |-> DESTINATION_PATHS[task.attributes.shipping_phase],
         locale |-> "multi"]]

\* lines 153-179
build_maven_artifact_map(task) ==
    <<[task_id |-> "module-build", destinations |-> <<>>, locale |-> "en-US"],
      [task_id |-> "signing", destinations |-> <<>>, locale |-> "en-US"]>>

\* lines 182-191, with the KeyError of a subscript whose key is not there
build_artifact_map(task) ==
    IF "worker" \notin DOMAIN task THEN raise("KeyError: 'worker'")
    ELSE IF worker_get_action(task) = Str("push-to-maven")
    THEN yield(<<[task EXCEPT !.worker = ("artifact-map" :> build_maven_artifact_map(task)) @@ @]>>)
    ELSE IF "shipping_phase" \notin DOMAIN task.attributes
    THEN raise("KeyError: 'shipping_phase'")
    ELSE IF task.attributes.shipping_phase \notin DOMAIN DESTINATION_PATHS
    THEN raise("KeyError: DESTINATION_PATHS")
    ELSE IF "upstream-artifacts" \notin DOMAIN task.worker
    THEN raise("KeyError: 'upstream-artifacts'")
    ELSE yield(<<[task EXCEPT !.worker = ("artifact-map" :> build_plain_artifact_map(task)) @@ @]>>)

\* lines 194-220
add_remaining_beetmover_config(task, lvl) ==
    IF "shipping_phase" \notin DOMAIN task.attributes THEN raise("KeyError: 'shipping_phase'")
    ELSE IF "worker" \notin DOMAIN task THEN raise("KeyError: 'worker'")
    ELSE IF worker_get_action(task) = Str("push-to-maven")
    THEN yield(<<[task EXCEPT
                    !.name = <<"module">> \o @,
                    !.description = "Publish a",
                    !.worker = ("version" :> "1.0") @@
                               ("bucket" :> IF lvl = "3" THEN "maven-production"
                                            ELSE "maven-staging") @@ @]>>)
    ELSE yield(<<[task EXCEPT
                    !.description = "Publish name",
                    !.worker = ("version" :> "1.0") @@
                               ("bucket" :> IF lvl = "3" THEN "release" ELSE "dep") @@
                               ("action" :> IF task.attributes.shipping_phase = "ship"
                                            THEN Str("direct-push-to-bucket")
                                            ELSE Str("push-to-candidates")) @@ @]>>)

\* the transform named name, applied to a task it has made done copies of
transform(name, task, done) ==
    CASE name = "adjust_name" -> adjust_name(task)
      [] name = "resolve_keys" -> resolve_keys(task, level)
      [] name = "build_upstream_artifacts" -> build_upstream_artifacts(task)
      [] name = "split_by_release_phase" -> split_by_release_phase(task, flavors, done)
      [] name = "build_artifact_map" -> build_artifact_map(task)
      [] name = "add_remaining_beetmover_config" -> add_remaining_beetmover_config(task, level)

\* the transform gets as far as its task["worker"].get("action"):
\* build_upstream_artifacts always (line 91 makes the worker section),
\* build_artifact_map when the task has a worker section (line 185),
\* add_remaining_beetmover_config when it has a shipping_phase and a worker
\* section (lines 200-202)
reads_action(name, task) ==
    CASE name = "build_upstream_artifacts" -> TRUE
      [] name = "build_artifact_map" -> "worker" \in DOMAIN task
      [] name = "add_remaining_beetmover_config" ->
            "shipping_phase" \in DOMAIN task.attributes /\ "worker" \in DOMAIN task
      [] OTHER -> FALSE

\* what the transform gets there
action_read(task) ==
    IF "worker" \in DOMAIN task THEN worker_get_action(task) ELSE Str(None)

\* the tasks still on their way through the sequence
Unfinished == {i \in DOMAIN beetmover : beetmover[i].at < Len(beetmover_transforms)}

\* The transforms are generators chained one on the other and drained from
\* the end: a task goes through every transform before the next task of the
\* list enters the first one, and the tasks split_by_release_phase yields
\* for one task go on one after the other.
Front == CHOOSE i \in Unfinished : \A j \in Unfinished : i <= j

\* The transform named name takes the task at the front and runs up to its
\* next yield, or raises. split_by_release_phase is suspended inside its
\* loop over the flavors when it yields a copy: the task it copies stays
\* behind the copy, and the next copy is made when the copy before it has
\* gone through the rest of the sequence.
Transform(name) ==
    /\ bpc = "run"
    /\ Unfinished # {}
    /\ beetmover_transforms[beetmover[Front].at + 1] = name
    /\ LET entry == beetmover[Front]
           result == transform(name, entry.task, entry.phase)
           in_loop == /\ name = "split_by_release_phase"
                      /\ "shipping_phase" \notin DOMAIN entry.task.attributes
                      /\ entry.phase < Len(flavors)
       IN
       /\ action_reads' =
             IF reads_action(name, entry.task)
             THEN action_reads \cup {[by |-> name, saw |-> action_read(entry.task)]}
             ELSE action_reads
       /\ IF result.raised = "no"
          THEN /\ beetmover' =
                    SubSeq(beetmover, 1, Front - 1) \o
                    [k \in DOMAIN result.out |->
                        [task |-> result.out[k], at |-> entry.at + 1,
                         origin |-> entry.origin, phase |-> 0]] \o
                    (IF in_loop THEN <<[entry EXCEPT !.phase = @ + 1]>> ELSE <<>>) \o
                    SubSeq(beetmover, Front + 1, Len(beetmover))
               /\ bpc' = bpc
          ELSE /\ bpc' = result.raised
               /\ beetmover' = beetmover
    /\ UNCHANGED <<beetmover_input, level, flavors>>

AdjustName == Transform("adjust_name")
ResolveKeys == Transform("resolve_keys")
BuildUpstreamArtifacts == Transform("build_upstream_artifacts")
SplitByReleasePhase == Transform("split_by_release_phase")
BuildArtifactMap == Transform("build_artifact_map")
AddRemainingBeetmoverConfig == Transform("add_remaining_beetmover_config")

\* no task is in the beetmover sequence
BeetmoverIdle ==
    /\ beetmover_input = <<>>
    /\ beetmover = <<>>
    /\ level = None
    /\ flavors = <<>>
    /\ action_reads = {}
    /\ bpc = "idle"

\* the sequence is handed the tasks of the kind
BeetmoverInit ==
    /\ \E n \in 1..MaxBeetmover : beetmover_input \in {l \in BeetmoverLists(n) : Len(l) = n}
    /\ beetmover = beetmover_input
    /\ level \in Levels
    /\ flavors \in Flavors
    /\ action_reads = {}
    /\ bpc = "run"

\* no decision run is under way
LibIdle ==
    /\ now = [r \in Runs |-> 0]
    /\ found_or_created_indexed_tasks = [r \in Runs |-> <<>>]
    /\ all_tasks = [r \in Runs |-> <<>>]
    /\ queue = <<>>
    /\ index = <<>>
    /\ pc = [r \in Runs |-> "idle"]
    /\ calls = [r \in Runs |-> <<>>]
    /\ graph = [r \in Runs |-> {}]
    /\ decision = [r \in Runs |-> "any"]
    /\ creating = [r \in Runs |-> <<>>]
    /\ hashed = {}

InitChunk == LibIdle /\ ChunkInit /\ GroupIdle /\ TargetIdle /\ ParamsIdle /\ BeetmoverIdle /\ ScriptIdle

NextChunk ==
    \/ ChunkBegin /\ UNCHANGED <<libvars, groupvars, targetvars, paramvars, beetvars, scriptvars>>
    \/ ChunkSplit /\ UNCHANGED <<libvars, groupvars, targetvars, paramvars, beetvars, scriptvars>>
    \/ ChunkResume /\ UNCHANGED <<libvars, groupvars, targetvars, paramvars, beetvars, scriptvars>>
    \/ ChunkYieldParent /\ UNCHANGED <<libvars, groupvars, targetvars, paramvars, beetvars, scriptvars>>
    \/ ChunkRerun /\ UNCHANGED <<libvars, groupvars, targetvars, paramvars, beetvars, scriptvars>>

SpecChunk == InitChunk /\ [][NextChunk]_vars

\* adjust_dependencies on one job, run to its end: the consumer of the
\* generator asks for the next job until the generator is exhausted, so a
\* step that can be taken is taken
NextChunkOnce ==
    \/ ChunkBegin /\ UNCHANGED <<libvars, groupvars, targetvars, paramvars, beetvars, scriptvars>>
    \/ ChunkSplit /\ UNCHANGED <<libvars, groupvars, targetvars, paramvars, beetvars, scriptvars>>
    \/ ChunkResume /\ UNCHANGED <<libvars, groupvars, targetvars, paramvars, beetvars, scriptvars>>
    \/ ChunkYieldParent /\ UNCHANGED <<libvars, groupvars, targetvars, paramvars, beetvars, scriptvars>>

\* the runs that are followed to their end: taskgraph.MAX_DEPENDENCIES is at
\* least 2, and the soft-dependencies are the labels convert_dependencies
\* takes from the dict of the kind's dependencies (lines 52-54), each once
InitChunkFair ==
    /\ InitChunk
    /\ MAX_DEPENDENCIES >= 2
    /\ Cardinality(Range(input["soft-dependencies"])) = Len(input["soft-dependencies"])

SpecChunkFair == InitChunkFair /\ [][NextChunkOnce]_vars /\ WF_vars(NextChunkOnce)

InitJobs == LibIdle /\ JobsInit /\ GroupIdle /\ TargetIdle /\ ParamsIdle /\ BeetmoverIdle /\ ScriptIdle

NextJobs ==
    \/ ChunkBegin /\ UNCHANGED <<libvars, groupvars, targetvars, paramvars, beetvars, scriptvars>>
    \/ ChunkSplit /\ UNCHANGED <<libvars, groupvars, targetvars, paramvars, beetvars, scriptvars>>
    \/ ChunkResume /\ UNCHANGED <<libvars, groupvars, targetvars, paramvars, beetvars, scriptvars>>
    \/ ChunkYieldParent /\ UNCHANGED <<libvars, groupvars, targetvars, paramvars, beetvars, scriptvars>>
    \/ ChunkNextJob /\ UNCHANGED <<libvars, groupvars, targetvars, paramvars, beetvars, scriptvars>>

SpecJobs == InitJobs /\ [][NextJobs]_vars

InitScript == LibIdle /\ ScriptInit /\ GroupIdle /\ TargetIdle /\ ParamsIdle /\ BeetmoverIdle

NextScript ==
    \/ ChunkBegin /\ UNCHANGED <<libvars, groupvars, targetvars, paramvars, beetvars, scriptvars>>
    \/ ChunkSplit /\ UNCHANGED <<libvars, groupvars, targetvars, paramvars, beetvars, scriptvars>>
    \/ ChunkResume /\ UNCHANGED <<libvars, groupvars, targetvars, paramvars, beetvars, scriptvars>>
    \/ ChunkYieldParent /\ UNCHANGED <<libvars, groupvars, targetvars, paramvars, beetvars, scriptvars>>
    \/ DepsCompleteRun /\ UNCHANGED <<libvars, groupvars, targetvars, paramvars, beetvars>>

SpecScript == InitScript /\ [][NextScript]_vars

InitBeetmover ==
    LibIdle /\ ChunkIdle /\ GroupIdle /\ TargetIdle /\ ParamsIdle /\ BeetmoverInit /\ ScriptIdle

NextBeetmover ==
    \/ AdjustName /\ UNCHANGED <<libvars, chunkvars, groupvars, targetvars, paramvars, scriptvars>>
    \/ ResolveKeys /\ UNCHANGED <<libvars, chunkvars, groupvars, targetvars, paramvars, scriptvars>>
    \/ BuildUpstreamArtifacts /\ UNCHANGED <<libvars, chunkvars, groupvars, targetvars, paramvars, scriptvars>>
    \/ SplitByReleasePhase /\ UNCHANGED <<libvars, chunkvars, groupvars, targetvars, paramvars, scriptvars>>
    \/ BuildArtifactMap /\ UNCHANGED <<libvars, chunkvars, groupvars, targetvars, paramvars, scriptvars>>
    \/ AddRemainingBeetmoverConfig /\ UNCHANGED <<libvars, chunkvars, groupvars, targetvars, paramvars, scriptvars>>

SpecBeetmover == InitBeetmover /\ [][NextBeetmover]_vars

InitGroup == LibIdle /\ ChunkIdle /\ GroupInit /\ TargetIdle /\ ParamsIdle /\ BeetmoverIdle /\ ScriptIdle

NextGroup ==
    \/ FromDepsGrouping /\ UNCHANGED <<libvars, chunkvars, targetvars, paramvars, beetvars, scriptvars>>
    \/ group_tasks /\ UNCHANGED <<libvars, chunkvars, targetvars, paramvars, beetvars, scriptvars>>
    \/ group_tasks_next /\ UNCHANGED <<libvars, chunkvars, targetvars, paramvars, beetvars, scriptvars>>

SpecGroup == InitGroup /\ [][NextGroup]_vars

InitTarget == LibIdle /\ ChunkIdle /\ GroupIdle /\ TargetInit /\ ParamsIdle /\ BeetmoverIdle /\ ScriptIdle

NextTarget ==
    \/ PrSkip /\ UNCHANGED <<libvars, chunkvars, groupvars, paramvars, beetvars, scriptvars>>
    \/ Full /\ UNCHANGED <<libvars, chunkvars, groupvars, paramvars, beetvars, scriptvars>>
    \/ Nightly /\ UNCHANGED <<libvars, chunkvars, groupvars, paramvars, beetvars, scriptvars>>
    \/ PrFull /\ UNCHANGED <<libvars, chunkvars, groupvars, paramvars, beetvars, scriptvars>>
    \/ PrNormal /\ UNCHANGED <<libvars, chunkvars, groupvars, paramvars, beetvars, scriptvars>>
    \/ Promote /\ UNCHANGED <<libvars, chunkvars, groupvars, paramvars, beetvars, scriptvars>>
    \/ Ship /\ UNCHANGED <<libvars, chunkvars, groupvars, paramvars, beetvars, scriptvars>>

SpecTarget == InitTarget /\ [][NextTarget]_vars

InitParams == LibIdle /\ ChunkIdle /\ GroupIdle /\ TargetIdle /\ ParamsInit /\ BeetmoverIdle /\ ScriptIdle

NextParams ==
    \/ get_decision_parameters /\ UNCHANGED <<libvars, chunkvars, groupvars, targetvars, beetvars, scriptvars>>
    \/ update_decision_parameters /\ UNCHANGED <<libvars, chunkvars, groupvars, targetvars, beetvars, scriptvars>>

SpecParams == InitParams /\ [][NextParams]_vars

Init == LibInit /\ ChunkIdle /\ GroupIdle /\ TargetIdle /\ ParamsIdle /\ BeetmoverIdle /\ ScriptIdle

Next ==
    \/ \E r \in Runs : \E ids \in DependencyLists(r) :
         decision[r] = "any" /\ create(r, with_dependencies(PlainTask, ids)) /\ UNCHANGED <<chunkvars, groupvars, targetvars, paramvars, beetvars, scriptvars>>
    \/ \E r \in Runs : \E args \in FindOrCreateArgs : \E status \in {200, 404, 500} :
         decision[r] = "any" /\ find_or_create(r, args[1], args[2], status) /\ UNCHANGED <<chunkvars, groupvars, targetvars, paramvars, beetvars, scriptvars>>
    \/ \E r \in Runs : find_or_create_create(r) /\ UNCHANGED <<chunkvars, groupvars, targetvars, paramvars, beetvars, scriptvars>>
    \/ \E r \in Runs : \E status \in {200, 404, 500} : main(r, status) /\ UNCHANGED <<chunkvars, groupvars, targetvars, paramvars, beetvars, scriptvars>>
    \/ \E r \in Runs : build_task_graph(r) /\ UNCHANGED <<chunkvars, groupvars, targetvars, paramvars, beetvars, scriptvars>>
    \/ \E t \in DOMAIN queue : IndexTask(t) /\ UNCHANGED <<chunkvars, groupvars, targetvars, paramvars, beetvars, scriptvars>>

Spec == Init /\ [][Next]_vars
(***************************************************************************)
(* Properties of decisionlib.py, checked under Spec.                       *)
(***************************************************************************)

\* a call of run r returns or raises in this step; NewCall(r) is its record
Called(r) == Len(calls'[r]) = Len(calls[r]) + 1
NewCall(r) == calls'[r][Len(calls'[r])]
\* run r calls findTask in this step, for the path LookedUpPath(r): the call
\* returns or raises at once, or is left to create the task
LookedUp(r) ==
    /\ creating[r] = <<>>
    /\ \/ creating'[r] # <<>>
       \/ Called(r) /\ NewCall(r).op = "find_or_create" /\ NewCall(r).status # 0
LookedUpPath(r) == IF creating'[r] # <<>> THEN creating'[r][1].path ELSE NewCall(r).path
\* the tasks run r has submitted to the queue
TasksOf(r) == {t \in DOMAIN queue : queue[t].taskGroupId = decision_task_id(r)}
\* the ids of the tasks the calls 1..n of run r created
CreatedBy(r, n) ==
    {calls[r][i].result : i \in {j \in 1..n : calls[r][j].op = "create"
                                               \/ calls[r][j].status = 404}}

\* C1: when findTask fails with anything but 404, find_or_create raises and
\* leaves the run state as it was: nothing is created in the queue, the task
\* gets no index route, all_tasks and found_or_created_indexed_tasks keep
\* their values.
C1_LookupErrorPropagates ==
    [][\A r \in Runs :
         (Called(r) /\ NewCall(r).op = "find_or_create"
                    /\ NewCall(r).status \notin {0, 200, 404}) =>
            /\ pc'[r] = "failed"
            /\ NewCall(r).result = NoId
            /\ queue' = queue
            /\ \A i \in DOMAIN NewCall(r).routes : NewCall(r).routes[i].route # "index"
            /\ all_tasks' = all_tasks
            /\ found_or_created_indexed_tasks' = found_or_created_indexed_tasks]_vars

C1_Witness ==
    \E r \in Runs :
        /\ pc[r] = "failed"
        /\ calls[r][Len(calls[r])].status = 500
        /\ all_tasks[r] # <<>>
        /\ DOMAIN found_or_created_indexed_tasks[r] # {}

\* C2: with no index_path supplied, the same worker type and the same worker
\* payload give the same index path in every run, and a run that looks such
\* a path up once another run's task is registered under it returns that
\* task's id and creates nothing, in that step or later.
C2_IdempotentCaching ==
    /\ [](\A h1, h2 \in hashed : (h1[1] = h2[1] /\ h1[2] = h2[2]) => h1[3] = h2[3])
    /\ [][\A r \in Runs :
            (/\ LookedUp(r)
             /\ LookedUpPath(r).path = "by-task-definition"
             /\ LookedUpPath(r) \in DOMAIN index
             /\ pc'[r] # "failed") =>
                /\ Called(r)
                /\ NewCall(r).result = index[LookedUpPath(r)]
                /\ queue' = queue
                /\ creating'[r] = <<>>]_vars
    /\ [](\A r \in Runs : \A i \in DOMAIN calls[r] :
            (calls[r][i].path.path = "by-task-definition" /\ calls[r][i].status = 200) =>
               \A t \in TasksOf(r) : \A k \in DOMAIN queue[t].routes :
                  queue[t].routes[k] # IndexRoute(calls[r][i].path))

C2_Witness ==
    \E r \in Runs : \E i \in DOMAIN calls[r] :
        /\ calls[r][i].path.path = "by-task-definition"
        /\ calls[r][i].status = 200
        /\ calls[r][i].result \in DOMAIN queue
        /\ queue[calls[r][i].result].taskGroupId # decision_task_id(r)
        /\ Cardinality({h[2] : h \in hashed}) = 1
        /\ pc[r] = "done"

\* C3: when findTask answers 404, find_or_create creates exactly one task;
\* the task carries the route "index.<prefix>.<index_path>" of the path that
\* was looked up, its id is appended to all_tasks, and the path is cached
\* with that id.
C3_NotFoundCreates ==
    [][\A r \in Runs :
         (Called(r) /\ NewCall(r).status = 404) =>
            LET p == NewCall(r).path
                id == NewCall(r).result
            IN
            /\ id \notin DOMAIN queue
            /\ DOMAIN queue' = DOMAIN queue \cup {id}
            /\ \A t \in DOMAIN queue : queue'[t] = queue[t]
            /\ p.prefix = index_prefix
            /\ \E i \in DOMAIN queue'[id].routes :
                  queue'[id].routes[i] = [route |-> "index", to |-> p]
            /\ all_tasks'[r] = Append(all_tasks[r], id)
            /\ p \in DOMAIN found_or_created_indexed_tasks'[r]
            /\ found_or_created_indexed_tasks'[r][p] = id]_vars

C3_Witness ==
    \E r \in Runs : \E i \in DOMAIN calls[r] :
        /\ calls[r][i].status = 404
        /\ calls[r][i].result \in DOMAIN queue
        /\ Len(all_tasks[r]) > 1

\* C4: when findTask finds a task id, find_or_create does not call
\* createTask, appends the found id to all_tasks, caches it and returns it;
\* the found id is part of the graph build_task_graph builds for the run.
C4_FoundIsReused ==
    /\ [][\A r \in Runs :
            (Called(r) /\ NewCall(r).status = 200) =>
               LET p == NewCall(r).path IN
               /\ queue' = queue
               /\ NewCall(r).result = index[p]
               /\ all_tasks'[r] = Append(all_tasks[r], index[p])
               /\ p \in DOMAIN found_or_created_indexed_tasks'[r]
               /\ found_or_created_indexed_tasks'[r][p] = index[p]]_vars
    /\ [](\A r \in Runs : \A i \in DOMAIN calls[r] :
            (pc[r] = "done" /\ decision[r] = "any" /\ calls[r][i].status = 200) =>
               calls[r][i].result \in graph[r])

C4_Witness ==
    \E r \in Runs : \E i \in DOMAIN calls[r] :
        /\ pc[r] = "done"
        /\ calls[r][i].status = 200
        /\ calls[r][i].result \in graph[r]

\* C5: within one run each index path is handed to findTask at most once and
\* gets at most one task created for it; a find_or_create for a path that is
\* already cached returns the cached id, calls neither findTask nor
\* createTask and appends nothing to all_tasks.
C5_OncePerPath ==
    /\ [](\A r \in Runs : \A i, j \in DOMAIN calls[r] :
            (/\ calls[r][i].op = "find_or_create"
             /\ calls[r][j].op = "find_or_create"
             /\ calls[r][i].path = calls[r][j].path
             /\ calls[r][i].status # 0
             /\ calls[r][j].status # 0) => i = j)
    /\ [](\A r \in Runs : \A t1, t2 \in TasksOf(r) :
            (\E i \in DOMAIN queue[t1].routes : \E j \in DOMAIN queue[t2].routes :
                /\ queue[t1].routes[i].route = "index"
                /\ queue[t1].routes[i] = queue[t2].routes[j]) => t1 = t2)
    /\ [][\A r \in Runs :
            (/\ Called(r)
             /\ NewCall(r).op = "find_or_create"
             /\ NewCall(r).path \in DOMAIN found_or_created_indexed_tasks[r]) =>
                /\ NewCall(r).status = 0
                /\ NewCall(r).result = found_or_created_indexed_tasks[r][NewCall(r).path]
                /\ queue' = queue
                /\ all_tasks' = all_tasks]_vars

C5_Witness ==
    \E r \in Runs : \E i, j \in DOMAIN calls[r] :
        /\ i < j
        /\ calls[r][i].op = "find_or_create"
        /\ calls[r][j].op = "find_or_create"
        /\ calls[r][i].path = calls[r][j].path
        /\ calls[r][i].status = 404
        /\ calls[r][j].status = 0

\* C6: during a run found_or_created_indexed_tasks and all_tasks only grow:
\* a cached path keeps its id, and all_tasks keeps its entries in place.
C6_AppendOnly ==
    [][\A r \in Runs :
         /\ \A p \in DOMAIN found_or_created_indexed_tasks[r] :
               /\ p \in DOMAIN found_or_created_indexed_tasks'[r]
               /\ found_or_created_indexed_tasks'[r][p] = found_or_created_indexed_tasks[r][p]
         /\ Len(all_tasks'[r]) >= Len(all_tasks[r])
         /\ \A i \in DOMAIN all_tasks[r] : all_tasks'[r][i] = all_tasks[r][i]]_vars

C6_Witness ==
    \E r \in Runs :
        /\ Cardinality(DOMAIN found_or_created_indexed_tasks[r]) >= 2
        /\ Len(all_tasks[r]) >= 2

\* C7: when findTask answered 404 for the same path to both runs, both runs
\* have created a task for it (two creations), and each run's cache maps the
\* path to the task that run created, for as long as the run lasts.
C7_RaceCreatesTwice ==
    \A r1, r2 \in Runs : \A i \in DOMAIN calls[r1] : \A j \in DOMAIN calls[r2] :
        (/\ r1 # r2
         /\ calls[r1][i].status = 404
         /\ calls[r2][j].status = 404
         /\ calls[r1][i].path = calls[r2][j].path) =>
            LET p == calls[r1][i].path IN
            /\ p \in DOMAIN found_or_created_indexed_tasks[r1]
            /\ p \in DOMAIN found_or_created_indexed_tasks[r2]
            /\ found_or_created_indexed_tasks[r1][p] = calls[r1][i].result
            /\ found_or_created_indexed_tasks[r2][p] = calls[r2][j].result
            /\ calls[r1][i].result \in TasksOf(r1)
            /\ calls[r2][j].result \in TasksOf(r2)
            /\ calls[r1][i].result # calls[r2][j].result

C7_Witness ==
    \E i \in DOMAIN calls[1] : \E j \in DOMAIN calls[2] :
        /\ calls[1][i].status = 404
        /\ calls[2][j].status = 404
        /\ calls[1][i].path = calls[2][j].path
        /\ calls[1][i].path \in DOMAIN index

\* C8 as claimed: a run that raised has submitted no task to the queue.
C8_NothingSubmittedOnFailure ==
    \A r \in Runs : pc[r] = "failed" => TasksOf(r) = {}

\* C8 as amended: a run that raised stopped at the raising call, which
\* submitted nothing; the tasks its earlier calls created are in the queue,
\* each in the decision task's group and with the decision task id as its
\* first dependency.
C8_FailureKeepsEarlierTasks ==
    \A r \in Runs : pc[r] = "failed" =>
        /\ calls[r] # <<>>
        /\ calls[r][Len(calls[r])].result = NoId
        /\ TasksOf(r) = CreatedBy(r, Len(calls[r]) - 1)
        /\ \A t \in TasksOf(r) :
              /\ queue[t].dependencies # <<>>
              /\ queue[t].dependencies[1] = decision_task_id(r)

C8_Witness ==
    \E r \in Runs : pc[r] = "failed" /\ TasksOf(r) # {}

\* C20: every id a call of a run returned, a cache hit included, is in
\* all_tasks of the run, and when a task is submitted to the queue every id in
\* its dependencies is the decision task id or is in all_tasks of the run
\* already.
C20_NoDanglingEdges ==
    /\ [](\A r \in Runs : \A i \in DOMAIN calls[r] :
            calls[r][i].result # NoId => calls[r][i].result \in Range(all_tasks[r]))
    /\ [][\A t \in DOMAIN queue' \ DOMAIN queue :
            \A i \in DOMAIN queue'[t].dependencies :
               \/ queue'[t].dependencies[i] = queue'[t].taskGroupId
               \/ \E r \in Runs :
                     /\ decision_task_id(r) = queue'[t].taskGroupId
                     /\ queue'[t].dependencies[i] \in Range(all_tasks[r])]_vars

C20_Witness ==
    \E t \in DOMAIN queue :
        /\ Len(queue[t].dependencies) = 2
        /\ queue[t].dependencies[1] = queue[t].taskGroupId
        /\ queue[t].dependencies[2] \in DOMAIN queue
        /\ queue[queue[t].dependencies[2]].taskGroupId # queue[t].taskGroupId
(***************************************************************************)
(* Properties of adjust_dependencies, checked under SpecChunk.             *)
(***************************************************************************)

\* the yielded jobs that are chunk children: all but the parent, which is
\* yielded last
ChildIndexes == {i \in DOMAIN yielded : yielded[i].label # input.label}
\* the soft-dependencies of the yielded children labelled l
ChildDeps(l) ==
    UNION {Range(yielded[i]["soft-dependencies"]) : i \in {j \in ChildIndexes : yielded[j].label = l}}
\* the labels reached from the labels S in at most n steps along the
\* soft-dependencies of the yielded children
RECURSIVE ReachFrom(_, _)
ReachFrom(S, n) ==
    IF n = 0 THEN S ELSE ReachFrom(S \cup UNION {ChildDeps(l) : l \in S}, n - 1)

\* C9: every job adjust_dependencies yields has at most MAX_DEPENDENCIES
\* soft-dependencies, and every chunk child has exactly MAX_DEPENDENCIES.
C9_ChunksWithinLimit ==
    \A i \in DOMAIN yielded :
        /\ Len(yielded[i]["soft-dependencies"]) <= MAX_DEPENDENCIES
        /\ i \in ChildIndexes => Len(yielded[i]["soft-dependencies"]) = MAX_DEPENDENCIES

C9_Witness ==
    /\ cpc = "done"
    /\ Cardinality(ChildIndexes) >= 2
    /\ Len(yielded) = Cardinality(ChildIndexes) + 1

\* C10: once the parent is yielded, every label of the job's original
\* soft-dependencies is reached from the parent's rewritten
\* soft-dependencies, directly or through chunk children.
C10_AllDependenciesKept ==
    cpc = "done" =>
        Range(input["soft-dependencies"]) \subseteq
            ReachFrom(Range(yielded[Len(yielded)]["soft-dependencies"]), Len(yielded))

C10_Witness ==
    /\ cpc = "done"
    /\ Cardinality(ChildIndexes) >= 2
    /\ Cardinality(Range(input["soft-dependencies"])) >= 3
    /\ \E d \in Range(input["soft-dependencies"]) :
          /\ d \notin Range(yielded[Len(yielded)]["soft-dependencies"])
          /\ \A i \in ChildIndexes :
                d \in Range(yielded[i]["soft-dependencies"]) =>
                    yielded[i].label \notin Range(yielded[Len(yielded)]["soft-dependencies"])

\* the smallest whole number that is at least a / b
Ceil(a, b) == (a + b - 1) \div b
\* the soft-dependencies of the jobs in js, one list after the other
RECURSIVE Flatten(_)
Flatten(js) ==
    IF js = <<>> THEN <<>> ELSE js[1]["soft-dependencies"] \o Flatten(Tail(js))
\* the number of soft-dependencies the job came with
NumDeps == Len(input["soft-dependencies"])

\* C11: a job with n > MAX_DEPENDENCIES soft-dependencies, all
\* different, gets ceil(n / MAX_DEPENDENCIES) children; each child holds at most
\* MAX_DEPENDENCIES of the original dependencies, no two children share one,
\* and together they hold all of them; 37 dependencies under a maximum of 15
\* give children of 15, 15 and 7 and a parent with 3 dependencies.
C11_CeilChunks ==
    (/\ cpc = "done"
     /\ NumDeps > MAX_DEPENDENCIES
     /\ Cardinality(Range(input["soft-dependencies"])) = NumDeps) =>
        /\ Cardinality(ChildIndexes) = Ceil(NumDeps, MAX_DEPENDENCIES)
        /\ \A i \in ChildIndexes :
              /\ Len(yielded[i]["soft-dependencies"]) <= MAX_DEPENDENCIES
              /\ Range(yielded[i]["soft-dependencies"]) \subseteq Range(input["soft-dependencies"])
        /\ \A i, j \in ChildIndexes :
              i # j => Range(yielded[i]["soft-dependencies"])
                          \cap Range(yielded[j]["soft-dependencies"]) = {}
        /\ UNION {Range(yielded[i]["soft-dependencies"]) : i \in ChildIndexes}
              = Range(input["soft-dependencies"])
        /\ (NumDeps = 37 /\ MAX_DEPENDENCIES = 15) =>
              /\ [i \in 1..(Len(yielded) - 1) |-> Len(yielded[i]["soft-dependencies"])]
                    = <<15, 15, 7>>
              /\ Cardinality(Range(yielded[Len(yielded)]["soft-dependencies"])) = 3

\* C12: a run of adjust_dependencies on the job of the run before, with the
\* same soft-dependencies listed in another order, yields the same jobs in
\* the same order: the same children (label and slice) and the same parent
\* with the same rewritten soft-dependencies.
C12_SameChunksInAnyOrder ==
    (cpc = "done" /\ previous # <<>>) => yielded = previous[1].yielded

C12_Witness ==
    /\ cpc = "done"
    /\ previous # <<>>
    /\ previous[1].listed # input["soft-dependencies"]
    /\ Len(yielded) >= 3
    /\ yielded = previous[1].yielded

\* C13: no chunk child has a routes field, and the parent that is yielded
\* has the fields the job came with, each with the value it came with,
\* except soft-dependencies.
C13_RoutesStayWithParent ==
    /\ \A i \in DOMAIN yielded : i < Len(yielded) \/ cpc # "done" =>
           "routes" \notin DOMAIN yielded[i]
    /\ cpc = "done" =>
           /\ DOMAIN yielded[Len(yielded)] = DOMAIN input
           /\ \A f \in DOMAIN input \ {"soft-dependencies"} :
                  yielded[Len(yielded)][f] = input[f]

C13_Witness ==
    /\ cpc = "done"
    /\ Len(yielded) >= 2
    /\ input.routes # <<>>
    /\ yielded[Len(yielded)].routes = input.routes
    /\ yielded[Len(yielded)]["soft-dependencies"] # input["soft-dependencies"]

(***************************************************************************)
(* Properties of component_grouping, checked under SpecGroup.              *)
(***************************************************************************)

\* the upstream tasks: the tasks of a kind listed in kind-dependencies
Upstream == SelectSeq(tasks, LAMBDA t : t.kind \in kind_dependencies)
\* the component names of the upstream tasks, without "all"
GroupedComponents ==
    {Upstream[i].attributes.buildconfig.name : i \in DOMAIN Upstream} \ {"all"}
\* the tasks among l whose component is c, in order
OfComponent(l, c) ==
    SelectSeq(l, LAMBDA t : IF "buildconfig" \in DOMAIN t.attributes
                            THEN t.attributes.buildconfig.name = c ELSE FALSE)
\* a copy of each task of l
Copies(l) == [i \in DOMAIN l |-> [l[i] EXCEPT !.copy = TRUE]]
\* the group of component c: its upstream tasks, then a copy of every "all"
\* task handed in
GroupOf(c) == OfComponent(Upstream, c) \o Copies(OfComponent(tasks, "all"))

\* C14: component_grouping returns one group for each component name other
\* than "all" among the upstream tasks and no other group; the group of a
\* component holds the upstream tasks of that component and a copy of every
\* "all" task, nothing else (group_tasks hands out a copy of each group);
\* without an upstream task of a component other than "all" there is no group.
C14_OneGroupPerComponent ==
    gpc \in {"from-deps", "group_tasks"} =>
        /\ Len(groups) = Cardinality(GroupedComponents)
        /\ \A c \in GroupedComponents : \E i \in DOMAIN groups :
              groups[i] = IF gpc = "from-deps" THEN GroupOf(c) ELSE Copies(GroupOf(c))
        /\ \A i \in DOMAIN groups : \E j \in DOMAIN groups[i] :
              groups[i][j].attributes.buildconfig.name # "all"
        /\ (\A i \in DOMAIN Upstream : Upstream[i].attributes.buildconfig.name = "all")
              => groups = <<>>

C14_Witness ==
    /\ gpc = "from-deps"
    /\ Len(Upstream) = 4
    /\ Len(OfComponent(Upstream, "a")) = 2
    /\ Len(OfComponent(Upstream, "b")) = 1
    /\ Len(OfComponent(Upstream, "all")) = 1
    /\ Len(groups) = 2
    /\ {Len(groups[i]) : i \in DOMAIN groups} = {2, 3}

(***************************************************************************)
(* Properties of the target task strategies, checked under SpecTarget.     *)
(***************************************************************************)

AllLabels == {full_task_graph[i].label : i \in DOMAIN full_task_graph}
\* the labels of the tasks of the graph that satisfy P
LabelsWhere(P(_)) ==
    {full_task_graph[i].label : i \in {j \in DOMAIN full_task_graph : P(full_task_graph[j])}}
\* the attribute is set on the task, to value
Has(task, attribute, value) ==
    IF attribute \in DOMAIN task.attributes THEN task.attributes[attribute] = value ELSE FALSE
Unset(task, attribute) == attribute \notin DOMAIN task.attributes
\* the list has no label twice
NoRepeats(l) == Cardinality(Range(l)) = Len(l)

\* C15: "pr-skip" returns no label, whatever the graph and the parameters;
\* "full" returns the label of every task of the graph, each once.
C15_SkipNothingFullEverything ==
    /\ method = "pr-skip" => target_tasks = <<>>
    /\ method = "full" =>
          /\ Len(target_tasks) = Len(full_task_graph)
          /\ Range(target_tasks) = AllLabels

C15_Witness ==
    /\ method = "full"
    /\ Len(target_tasks) = 2
    /\ \E i \in DOMAIN full_task_graph : Has(full_task_graph[i], "shipping_phase", "ship")
    /\ \E i \in DOMAIN full_task_graph : Has(full_task_graph[i], "run-on-pr-type", "normal-ci")

\* C16 as claimed: "nightly" returns the label of every task of the graph,
\* unless the nightly decision task of the head revision was found in the
\* index, when it returns no label.
C16_NightlyKeepsEverything ==
    method = "nightly" =>
        IF lookup = 200 THEN target_tasks = <<>>
        ELSE Len(target_tasks) = Len(full_task_graph) /\ Range(target_tasks) = AllLabels

\* C16 as amended: "nightly" returns the labels of the tasks that have the
\* nightly attribute or whose shipping_phase is unset or "build", and drops
\* the others; when the nightly decision task of the head revision was found
\* in the index it returns no label, and a lookup that fails in any way
\* counts as not found.
C16_NightlyKeepsUnshipped ==
    method = "nightly" =>
        /\ lookup = 200 <=> (head_rev \in nightly_index /\ lookup # 500)
        /\ lookup = 200 => target_tasks = <<>>
        /\ lookup # 200 =>
              /\ NoRepeats(target_tasks)
              /\ Range(target_tasks) =
                    LabelsWhere(LAMBDA t : \/ Has(t, "nightly", TRUE)
                                           \/ Unset(t, "shipping_phase")
                                           \/ Has(t, "shipping_phase", "build"))

C16_Witness ==
    /\ method = "nightly"
    /\ lookup = 404
    /\ nightly_index # {}
    /\ Len(full_task_graph) = 2
    /\ Len(target_tasks) = 1
    /\ \A i \in DOMAIN full_task_graph : Has(full_task_graph[i], "shipping_phase", "promote")

\* C17: "pr-normal" returns the labels of the tasks that pass the tasks-for
\* filter, have run-on-pr-type unset, "all" or "normal-ci" and do not have
\* the release-type "release-only"; "pr-full" does the same with "full-ci"
\* for "normal-ci". So neither returns a task of the other's type.
C17_PrStrategies ==
    /\ method = "pr-normal" =>
          /\ NoRepeats(target_tasks)
          /\ Range(target_tasks) =
                LabelsWhere(LAMBDA t :
                    /\ filter_for_tasks_for(t, tasks_for)
                    /\ \/ Unset(t, "run-on-pr-type")
                       \/ Has(t, "run-on-pr-type", "all")
                       \/ Has(t, "run-on-pr-type", "normal-ci")
                    /\ ~Has(t, "release-type", "release-only"))
          /\ Range(target_tasks)
                \cap LabelsWhere(LAMBDA t : Has(t, "run-on-pr-type", "full-ci")) = {}
    /\ method = "pr-full" =>
          /\ NoRepeats(target_tasks)
          /\ Range(target_tasks) =
                LabelsWhere(LAMBDA t :
                    /\ filter_for_tasks_for(t, tasks_for)
                    /\ \/ Unset(t, "run-on-pr-type")
                       \/ Has(t, "run-on-pr-type", "all")
                       \/ Has(t, "run-on-pr-type", "full-ci")
                    /\ ~Has(t, "release-type", "release-only"))
          /\ Range(target_tasks)
                \cap LabelsWhere(LAMBDA t : Has(t, "run-on-pr-type", "normal-ci")) = {}

C17_Witness ==
    /\ method = "pr-normal"
    /\ Len(full_task_graph) = 2
    /\ full_task_graph[1].attributes = <<>>
    /\ Has(full_task_graph[2], "run-on-pr-type", "full-ci")
    /\ target_tasks = <<full_task_graph[1].label>>

\* C18: "promote" returns the labels of the tasks whose shipping_phase is
\* "promote"; "ship" returns those of the tasks whose shipping_phase is
\* "ship" and all the labels "promote" returns on the graph.
C18_PromoteAndShip ==
    /\ method = "promote" =>
          /\ NoRepeats(target_tasks)
          /\ Range(target_tasks) = LabelsWhere(LAMBDA t : Has(t, "shipping_phase", "promote"))
    /\ method = "ship" =>
          /\ NoRepeats(target_tasks)
          /\ Range(filtered_for_candidates)
                = LabelsWhere(LAMBDA t : Has(t, "shipping_phase", "promote"))
          /\ Range(target_tasks) =
                LabelsWhere(LAMBDA t : Has(t, "shipping_phase", "ship"))
                    \cup Range(filtered_for_candidates)
          /\ Range(filtered_for_candidates) \subseteq Range(target_tasks)

C18_Witness ==
    /\ method = "ship"
    /\ Len(target_tasks) = 2
    /\ Len(filtered_for_candidates) = 1
    /\ \E i \in DOMAIN full_task_graph : Has(full_task_graph[i], "shipping_phase", "ship")

(***************************************************************************)
(* Properties of get_decision_parameters, checked under SpecParams.        *)
(***************************************************************************)

\* the title has the tag "[preview <word>]"
HasPreview(w) == [tag |-> "preview", word |-> w] \in Range(pr_title)
\* the strategy the tags "[ci full]" and "[ci skip]" select
CiStrategy ==
    IF CiFull \in Range(pr_title) THEN "pr-full"
    ELSE IF CiSkip \in Range(pr_title) THEN "pr-skip" ELSE "pr-normal"
\* what the claim says of a github-release trigger
ReleaseTrigger ==
    parameters.tasks_for = "github-release" =>
        IF parameters.head_tag # <<>> /\ Tail(parameters.head_tag) = version
        THEN dpc = "done" /\ parameters.target_tasks_method = "full"
        ELSE /\ dpc = IF parameters.head_tag = <<>> THEN "ValueError" ELSE "KeyError"
             /\ parameters.target_tasks_method = "default"

\* C19 as claimed: for a pull request, "[preview nightly]" or
\* "[preview release]" select "full", otherwise "[ci full]" selects
\* "pr-full", otherwise "[ci skip]" selects "pr-skip", otherwise "pr-normal"
\* is selected; a github-release trigger selects "full" when head_tag is
\* "v" and the in-tree version, and fails without a strategy otherwise.
C19_TagPrecedence ==
    dpc # "start" =>
        /\ parameters.tasks_for = "github-pull-request" =>
              /\ dpc = "done"
              /\ parameters.target_tasks_method =
                    IF HasPreview("nightly") \/ HasPreview("release") THEN "full"
                    ELSE CiStrategy
        /\ ReleaseTrigger

\* C19 as amended: for a pull request whose title has "[preview <word>]"
\* tags, the first of them decides: "nightly" and "release" select "full",
\* any other word makes get_decision_parameters fail with no strategy set;
\* without such a tag "[ci full]" selects "pr-full", otherwise "[ci skip]"
\* selects "pr-skip", otherwise "pr-normal" is selected. A github-release
\* trigger is as claimed.
C19_FirstPreviewTagDecides ==
    dpc # "start" =>
        /\ parameters.tasks_for = "github-pull-request" =>
              LET places == {i \in DOMAIN pr_title : pr_title[i].tag = "preview"} IN
              IF places = {}
              THEN dpc = "done" /\ parameters.target_tasks_method = CiStrategy
              ELSE LET first == pr_title[CHOOSE i \in places : \A j \in places : i <= j]
                   IN IF first.word \in {"nightly", "release"}
                      THEN dpc = "done" /\ parameters.target_tasks_method = "full"
                      ELSE /\ dpc = "TypeError"
                           /\ parameters.target_tasks_method = "default"
        /\ ReleaseTrigger

C19_Witness ==
    /\ parameters.tasks_for = "github-pull-request"
    /\ dpc = "TypeError"
    /\ Len(pr_title) = 2
    /\ HasPreview("nightly")
(***************************************************************************)
(* Properties of adjust_dependencies fed several jobs (SpecJobs)           *)
(***************************************************************************)

\* the labels of the jobs yielded so far, in order
YieldedLabels == [i \in DOMAIN yielded |-> yielded[i].label]

\* C21: when the jobs fed to adjust_dependencies have pairwise distinct
\* labels, the jobs it yields, parents and chunk children, have pairwise
\* distinct labels.
C21_YieldedLabelsDistinct == NoRepeats(YieldedLabels)

(***************************************************************************)
(* Further properties of adjust_dependencies on one job (SpecChunk)        *)
(***************************************************************************)

\* the soft-dependencies the job came with
Originals == Range(input["soft-dependencies"])
\* the soft-dependencies of the i-th yielded job
DepsOf(i) == Range(yielded[i]["soft-dependencies"])
\* the labels of the chunk children yielded before the i-th yielded job
ChildrenBefore(i) == {yielded[j].label : j \in {c \in ChildIndexes : c < i}}

\* C22: among the jobs yielded for one job, a chunk child depends only on
\* original dependencies and on chunk children yielded before it; the parent
\* depends only on original dependencies and on chunk children, and is
\* yielded after every child; no yielded job depends on itself or on the
\* parent.
C22_ChunkingStaysAcyclic ==
    \A i \in DOMAIN yielded :
        /\ DepsOf(i) \subseteq Originals \cup ChildrenBefore(i)
        /\ i \notin ChildIndexes => i = Len(yielded) /\ cpc = "done"
        /\ cpc = "done" /\ i = Len(yielded) => i \notin ChildIndexes
        /\ yielded[i].label \notin DepsOf(i)
        /\ input.label \notin DepsOf(i)

\* a child that depends on an earlier child, and the parent yielded after them
C22_Witness ==
    /\ cpc = "done"
    /\ \E i \in ChildIndexes : DepsOf(i) \cap ChildrenBefore(i) # {}
    /\ DepsOf(Len(yielded)) \cap ChildrenBefore(Len(yielded)) # {}

\* the yielded jobs that carry the label of the job that came in
ParentIndexes == DOMAIN yielded \ ChildIndexes

\* C26: with MAX_DEPENDENCIES at least 2, adjust_dependencies comes to the
\* end of every job that has the routes field its child jobs are stripped
\* of: each round of the loop takes MAX_DEPENDENCIES entries off the list
\* and appends one child label, so the list gets shorter, and once it has at
\* most MAX_DEPENDENCIES entries the parent is yielded, exactly once.  No
\* run goes on for ever: a job without the field ends at the parent too, or
\* in the KeyError of line 96 in the first round.
C26_ChunkingTerminates ==
    /\ (cpc = "start" /\ MAX_DEPENDENCIES >= 2) ~>
          (cpc = IF "routes" \in DOMAIN job \/ NumDeps <= MAX_DEPENDENCIES
                 THEN "done" ELSE "KeyError")
    /\ [](cpc = "KeyError" => ("routes" \notin DOMAIN job /\ counter = 2 /\ yielded = <<>>))
    /\ [][(cpc = "loop" /\ cpc' = "yielded" /\ MAX_DEPENDENCIES >= 2) =>
            /\ Len(deps') = Len(deps) - MAX_DEPENDENCIES
            /\ Len(deps') + 1 < Len(deps)]_vars
    /\ [][(cpc = "yielded" /\ cpc' = "loop") => Len(deps') = Len(deps) + 1]_vars
    /\ [][(cpc = "loop" /\ cpc' = "done") => Len(deps) <= MAX_DEPENDENCIES]_vars
    /\ [](Cardinality(ParentIndexes) = IF cpc = "done" THEN 1 ELSE 0)

\* the loop went round at least twice and the parent was yielded
C26_Witness ==
    /\ cpc = "done"
    /\ "routes" \in DOMAIN input
    /\ MAX_DEPENDENCIES >= 2
    /\ counter >= 3
    /\ Cardinality(ParentIndexes) = 1

(***************************************************************************)
(* Further properties of the target task strategies (SpecTarget)           *)
(***************************************************************************)

\* the strategy has run twice on the same graph and parameters
RanTwice == earlier # <<>>

\* C23 as claimed: every strategy is a pure predicate over the task and the
\* parameters: two runs on the same graph and the same parameters return
\* the same labels, and the labels returned are labels of the graph.
C23_StrategiesPure ==
    /\ method \notin {"none", "raised"} => Range(target_tasks) \subseteq AllLabels
    /\ RanTwice => target_tasks = earlier[1].target_tasks

\* C23 as amended: the labels returned are labels of the graph; a run
\* changes neither the graph (the tasks and their attributes) nor the
\* parameters; two runs of a strategy other than "nightly" on the same graph
\* and the same parameters return the same labels, and so do two runs of
\* "nightly" whose lookups of the earlier nightly decision task have the same
\* outcome (both found it, or both did not).
C23_PureButForTheNightlyLookup ==
    [][/\ full_task_graph' = full_task_graph
       /\ tasks_for' = tasks_for
       /\ head_rev' = head_rev
       /\ method' \notin {"none", "raised"} => Range(target_tasks') \subseteq AllLabels'
       /\ RanTwice' =>
             \/ target_tasks' = earlier'[1].target_tasks
             \/ method' = "nightly" /\ (lookup' = 200) # (earlier'[1].lookup = 200)]_vars

\* "nightly" returned labels after a lookup that failed, and on the same
\* graph and parameters returned nothing after a lookup that succeeded
C23_Witness ==
    /\ RanTwice
    /\ method = "nightly"
    /\ earlier[1].lookup = 500
    /\ earlier[1].target_tasks # <<>>
    /\ lookup = 200
    /\ target_tasks = <<>>

\* C29: "nightly" does not fail because of the lookup in the index: when the
\* lookup of the earlier nightly decision task raises, be it not-found or
\* any other error, "nightly" returns the labels of the tasks that pass
\* filter_out_shipping_phase, as if no nightly had run for the revision; it
\* returns nothing of a graph that has such tasks only when the lookup
\* succeeded.
C29_NightlyNeverFailsOnLookup ==
    lookup # 0 =>
        LET passing == LabelsWhere(LAMBDA t : \/ Has(t, "nightly", TRUE)
                                              \/ Unset(t, "shipping_phase")
                                              \/ Has(t, "shipping_phase", "build"))
        IN
        /\ method = "nightly"
        /\ lookup \in {404, 500} => NoRepeats(target_tasks) /\ Range(target_tasks) = passing
        /\ (target_tasks = <<>> /\ passing # {}) => lookup = 200

\* the nightly decision task of the revision is in the index, the lookup
\* failed all the same, and "nightly" returned labels
C29_Witness ==
    /\ method = "nightly"
    /\ lookup = 500
    /\ head_rev \in nightly_index
    /\ target_tasks # <<>>

(***************************************************************************)
(* Further properties of find_or_create (Spec)                             *)
(***************************************************************************)

\* the worker payload without the time of the run: what the task was
\* configured with (script, features, artifact paths, expiry offsets)
Configured(payload) ==
    [payload EXCEPT !.artifacts = {[a EXCEPT !.expires.base = 0] : a \in @}]

\* C24: the index path find_or_create uses by default depends on the worker
\* type and on what the task was configured with, never on SHARED.now: two
\* runs started at different times with the same task configuration use the
\* same index path.
C24_IndexPathIgnoresClock ==
    \A h1, h2 \in hashed :
        (h1[1] = h2[1] /\ Configured(h1[2]) = Configured(h2[2])) => h1[3] = h2[3]

(***************************************************************************)
(* Further properties of get_decision_parameters (SpecParams)              *)
(***************************************************************************)

\* C27: every target_tasks_method that get_decision_parameters assigns, for
\* any trigger, is the name of a strategy registered in target_tasks.py.
C27_AssignedMethodIsRegistered ==
    (dpc = "done" /\ parameters.target_tasks_method # "default") =>
        parameters.target_tasks_method \in registered_target_tasks

(***************************************************************************)
(* Further properties of the grouping (SpecGroup)                          *)
(***************************************************************************)

\* C28: every task of every group component_grouping returns, the copies of
\* the "all" tasks included, is of a kind listed in kind-dependencies; a
\* task of another kind is in no group.
C28_GroupsHoldListedKindsOnly ==
    gpc \in {"from-deps", "group_tasks"} =>
        \A i \in DOMAIN groups : \A j \in DOMAIN groups[i] :
            groups[i][j].kind \in kind_dependencies

(***************************************************************************)
(* Properties of the beetmover transform sequence (SpecBeetmover)          *)
(***************************************************************************)

\* the place of the transform named name in the sequence
Place(name) == CHOOSE k \in DOMAIN beetmover_transforms : beetmover_transforms[k] = name
\* the i-th task of the sequence is about to enter the transform named name
Reaching(i, name) == beetmover[i].at + 1 = Place(name)
\* the tasks that come from the o-th task handed in, in order
From(o) == SelectSeq(beetmover, LAMBDA entry : entry.origin = o)

\* C25: in the beetmover sequence a field is set before it is read:
\* resolve_keys comes before the three transforms that read worker.action,
\* and the value they get is never the unresolved by-level form;
\* worker.upstream-artifacts is set on every task that reaches
\* build_artifact_map; every task that reaches build_artifact_map or
\* add_remaining_beetmover_config has a shipping_phase attribute: its own
\* when it came with one, else the one split_by_release_phase gave it, which
\* yields one task for each release-promotion flavor; so no transform
\* raises a KeyError.
C25_FieldsSetBeforeRead ==
    /\ bpc = "run"
    /\ \A name \in {"build_upstream_artifacts", "build_artifact_map",
                      "add_remaining_beetmover_config"} :
          Place("resolve_keys") < Place(name)
    /\ \A r \in action_reads : r.saw.by = ""
    /\ \A i \in DOMAIN beetmover :
          LET task == beetmover[i].task IN
          /\ Reaching(i, "build_artifact_map") =>
                /\ "worker" \in DOMAIN task
                /\ "upstream-artifacts" \in DOMAIN task.worker
                /\ "shipping_phase" \in DOMAIN task.attributes
          /\ Reaching(i, "add_remaining_beetmover_config") =>
                "shipping_phase" \in DOMAIN task.attributes
    /\ \A o \in DOMAIN beetmover_input :
          LET came == beetmover_input[o].task
              mine == From(o)
              copies == SelectSeq(mine, LAMBDA entry :
                                            "shipping_phase" \in DOMAIN entry.task.attributes)
              copied == SelectSeq(mine, LAMBDA entry :
                                            "shipping_phase" \notin DOMAIN entry.task.attributes)
          IN
          IF "shipping_phase" \in DOMAIN came.attributes
          THEN /\ Len(mine) = 1
               /\ mine[1].task.attributes.shipping_phase = came.attributes.shipping_phase
          ELSE /\ Len(copied) <= 1
               /\ [j \in DOMAIN copies |-> copies[j].task.attributes.shipping_phase] =
                     IF copied = <<>> THEN flavors
                     ELSE SubSeq(flavors, 1, copied[1].phase)

\* a task that came with a by-level worker.action and without a
\* shipping_phase went through the whole sequence as two tasks
C25_Witness ==
    /\ bpc = "run"
    /\ Unfinished = {}
    /\ \E o \in DOMAIN beetmover_input :
          /\ "worker" \in DOMAIN beetmover_input[o].task
          /\ beetmover_input[o].task.worker.action.by = "level"
          /\ Len(From(o)) = 2
          /\ From(o)[2].task.worker.action = Str("direct-push-to-bucket")
    /\ {r.by : r \in action_reads} =
          {"build_upstream_artifacts", "build_artifact_map", "add_remaining_beetmover_config"}

(***************************************************************************)
(* Properties of the deps-complete check on a chunked job (SpecScript)     *)
(***************************************************************************)

\* the group as a parent that was not chunked finds it: the original
\* dependencies that are in the group
OriginalGroup == [d \in Originals \cap DOMAIN task_group |-> task_group[d]]
\* the parent has run its check
ParentRan == cpc = "done" /\ input.label \in DOMAIN task_group

\* C30: chunking does not change the verdict of the deps-complete check:
\* the parent of a chunked job fails if and only if one of the original
\* dependencies that are in the decision task's group is not "completed",
\* which is when a parent that was not chunked fails; the dependencies that
\* are not in the group count in neither case.
C30_ChunkingKeepsVerdict ==
    ParentRan =>
        /\ task_group[input.label] = "failed" <=>
              \E d \in Originals : d \in DOMAIN task_group /\ task_group[d] # "completed"
        /\ task_group[input.label] =
              state_of_exit(exit_status(
                  check_dependent_tasks(OriginalGroup, input["soft-dependencies"])))

\* the parent failed on behalf of a child: the job was chunked into two
\* children and the parent, a dependency is not in the group, and the
\* children are all the parent depends on
C30_Witness ==
    /\ ParentRan
    /\ task_group[input.label] = "failed"
    /\ Len(yielded) = 3
    /\ Originals \ DOMAIN task_group # {}
    /\ DepsOf(3) \cap Originals = {}

====
